---- MODULE Spec2Model ----
(***************************************************************************)
(* A model of the TryCP client of try-o-rama: the transport multiplexer    *)
(* (TryCpClient, ts/src/trycp/trycp-client.ts) and the parts of the        *)
(* conductor handle (TryCpConductor) that sit directly on top of it:        *)
(* its lifecycle operations, installApp and the clone cell operations;     *)
(* and of the Player and the Orchestrator that run scenarios on conductors. *)
(***************************************************************************)
EXTENDS Integers, Sequences, FiniteSets, TLC

\* ------------------------------------------------------------------ bounds
\* number of TryCpClient.call invocations explored
MaxCalls == 2
\* conductors passed to addAllAgentsToAllConductors
MaxConductors == 2
\* distinct payload / error texts the remote may put into a frame
MaxText == 1
\* number of conductor handle operations explored
MaxOps == 3

\* --------------------------------------------------------- program constants
\* the close code TryCpClient.close passes to ws.close
CloseCode == 1000

\* the app interface ports signals arrive for
Ports == {1, 2}
Texts == 1..MaxText
\* ids a response frame may carry: the ids the calls get, and one more
FrameIds == 0..MaxCalls
\* an operation of the conductor handle makes at most three calls
MaxPromises == 3 * MaxOps
\* the ids call() can hand out
Ids == 0..MaxPromises
\* the signal callback a caller may register
Handlers == {"h1"}
\* the clone cells a test creates
CloneIds == {1}
\* options.installedAppId of installApp
AppIds == {1, 2}
\* options.agentPubKey of installApp, and the keys the conductor generates
AgentKeys == {1}
GeneratedKeys == {2}
\* TryCpRequest.type: requests to the Admin API, and requests to the App
\* API (zome calls among them)
\* a TryCpRequest: its type, the type of the Admin/App API message it
\* carries ("" when it carries none) and its id, port, app or cell
Request(t, m, a) == [type |-> t, message |-> m, arg |-> a]
AdminRequests == {Request("call_admin_interface", "", 0)}
RequestTypes == AdminRequests \cup {Request("call_app_interface", "", 0)}

VARIABLES
  requestId,        \* the module-level counter `let requestId = 0`
  requestPromises,  \* TryCpClient.requestPromises: id -> the promise whose
                    \* resolve/reject pair is stored under that id
  promises,         \* the promises created by call(), in creation order
  settled,          \* the responseResolve / responseReject invocation the
                    \* last step made
  signalHandlers,   \* TryCpClient.signalHandlers: port -> callback
  wsState,          \* readyState of TryCpClient.ws
  closeResult,      \* what the promise returned by close() resolved to
  frame,            \* the frame the last step handled, NoFrame when none
  console,          \* what the last step wrote to the log
  delivered,        \* the signal callback invocation the last step made
  timedOut,         \* callZome calls whose caller-supplied timeout elapsed
  uncaught,         \* an exception escaped an event listener
  wire,             \* the request envelopes ws.send transmitted, in order
  appInterfacePort, \* TryCpConductor.appInterfacePort, 0 for undefined
  ops,              \* the operations invoked on the conductor handle
  lifecycle,        \* the lifecycle state the operations that succeeded so
                    \* far put the handle in
  remote,           \* the clone cells of the remote conductor
  entries,          \* the entries written to each clone cell
  signals,          \* the signal frames the client received, in order
  dht,              \* the entries each conductor holds
  peer,             \* requestPromises of a second TryCpClient: the ids
                    \* its pending calls are stored under
  player,           \* a Player of the orchestrator and the calls of its
                    \* spawn and kill
  run               \* Orchestrator.runScenario: the runs made so far

\* the state of the conductor handle and of the conductor behind it
handleVars ==
  <<appInterfacePort, ops, lifecycle, remote, entries, signals, dht,
    peer, player, run>>

vars == <<requestId, requestPromises, promises, settled, signalHandlers,
          wsState, closeResult, frame, console, delivered, timedOut,
          uncaught, wire, appInterfacePort, ops, lifecycle, remote,
          entries, signals, dht, peer, player, run>>

\* ------------------------------------------------------------------ helpers
\* requestPromises maps every id to the promise stored under it, NoEntry for
\* an id that has no property in the object
NoEntry == 0

HasEntry(id) == requestPromises[id] # NoEntry

PendingIds == {id \in Ids : HasEntry(id)}

Calls == 1..Len(promises)

Pending(c) == promises[c].state = "pending"

\* ------------------------------------------------------------------- values
\* Every value that travels in a frame or settles a promise is a record
\* [kind, type, data]:
\*   null        TRYCP_SUCCESS_RESPONSE
\*   string      a string (a path, or the error text of a TryCP error)
\*   bytes       a Uint8Array: the msgpack encoding of an API response or of
\*               a signal, or bytes that decode to nothing
\*   api         a decoded Admin/App API response {type, data}
\*   signal      a decoded signal
\*   Error       a JS Error object; type is how its message was built
Val(k, t, d) == [kind |-> k, type |-> t, data |-> d]

TRYCP_SUCCESS_RESPONSE == Val("null", "", 0)

Undefined == Val("undefined", "", 0)

Str(t) == Val("string", "", t)

Garbage == Val("bytes", "garbage", 0)

\* types of the Admin/App API responses the remote can answer with
ApiTypes == {"ok", "error"}

\* the types of the Admin/App API responses the conductor handle asserts
ApiResponseTypes ==
  {"app_interface_attached", "app_info", "agent_pub_key_generated",
   "app_installed", "app_enabled", "zome_call", "clone_cell_created",
   "clone_cell_enabled", "clone_cell_disabled", "clone_cell_deleted",
   "agent_info", "agent_info_added"}

\* the `response` object of a response frame: it has property "0", property
\* "1", or neither
Outcomes ==
  [tag : {"0"}, val : {TRYCP_SUCCESS_RESPONSE}]
    \cup [tag : {"0"}, val : {Str(t) : t \in Texts}]
    \cup [tag : {"0"}, val : {Val("bytes", a, t) : a \in ApiTypes, t \in Texts}]
    \cup [tag : {"0"}, val : {Garbage}]
    \cup [tag : {"1"}, val : {Str(t) : t \in Texts}]
    \cup [tag : {"none"}, val : {Undefined}]

ResponseFrames == [type : {"response"}, id : FrameIds, response : Outcomes]

SignalFrames ==
  [type : {"signal"}, port : Ports,
   data : {Val("bytes", "signal", t) : t \in Texts} \cup {Garbage}]

MalformedFrames == [type : {"malformed"}]

\* the frames the remote may deliver
Frames == ResponseFrames \cup SignalFrames \cup MalformedFrames

\* ------------------------------------------------------------- wire codec
\* deserializeApiResponse: msgpack-decodes the bytes of a success outcome
\* into an API response {type, data}; bytes that are no encoding throw
deserializeApiResponse(b) ==
  IF b.kind = "bytes" /\ b.type \in ApiTypes \cup ApiResponseTypes
    THEN [threw |-> FALSE, val |-> Val("api", b.type, b.data)]
    ELSE [threw |-> TRUE, val |-> Val("Error", "decode", 0)]

\* deserializeTryCpSignal: msgpack-decodes the data of a signal frame
deserializeTryCpSignal(b) ==
  IF b.kind = "bytes" /\ b.type = "signal"
    THEN [threw |-> FALSE, val |-> Val("signal", "", b.data)]
    ELSE [threw |-> TRUE, val |-> Val("Error", "decode", 0)]

\* deserializeTryCpResponse: decodes a frame into a signal or response
\* wrapper; a frame of no known shape throws
deserializeTryCpResponse(f) ==
  IF f.type \in {"signal", "response"}
    THEN [threw |-> FALSE, val |-> f]
    ELSE [threw |-> TRUE, val |-> f]

\* what a step that handles no frame, logs nothing and invokes no callback
\* leaves in frame, console and delivered
NoFrame == [type |-> "none"]

NoDelivery == [handler |-> "undefined", signal |-> Undefined]

NoSettlement == [promise |-> 0, how |-> "none", value |-> Undefined]

Quiet ==
  /\ frame' = NoFrame
  /\ console' = ""
  /\ delivered' = NoDelivery
  /\ settled' = NoSettlement

\* ------------------------------------------------------------------- Init
Init ==
  /\ requestId = 0
  /\ requestPromises = [id \in Ids |-> NoEntry]
  /\ promises = << >>
  /\ signalHandlers = [p \in Ports |-> "undefined"]
  /\ wsState = "open"
  /\ closeResult = 0
  /\ frame = NoFrame
  /\ settled = NoSettlement
  /\ console = ""
  /\ delivered = NoDelivery
  /\ timedOut = {}
  /\ uncaught = FALSE
  /\ wire = << >>
  /\ appInterfacePort = 0
  /\ ops = << >>
  /\ lifecycle = "Unconfigured"
  /\ remote = [c \in CloneIds |-> "None"]
  /\ entries = [c \in CloneIds |-> 0]
  /\ signals = << >>
  /\ dht = [a \in 1..MaxConductors |-> {}]
  /\ peer = {}
  /\ player = [conductor |-> 0, spawned |-> 0, joins |-> 0, leaves |-> 0,
               killed |-> << >>, tasks |-> << >>]
  /\ run = << >>

\* ------------------------------------------------------------ promises
\* responseResolve / responseReject of promise c is invoked: the first
\* invocation settles the promise, a later one has no effect on it
Settle(c, how, v) ==
  /\ promises' = [promises EXCEPT ![c] =
       [@ EXCEPT !.state = IF @ = "pending" THEN how ELSE @,
                 !.settles = @ + 1]]
  /\ settled' = [promise |-> c, how |-> how, value |-> v]

\* ------------------------------------------------------ TryCpClient.call
\* ws.send on a socket that is not open either throws or discards the data,
\* depending on the ws release; on an open socket it transmits
SendOutcomes == IF wsState = "open" THEN {"sent"} ELSE {"threw", "discarded"}

call(request) ==
  /\ ~uncaught
  /\ Len(promises) < MaxPromises
  /\ \E send \in SendOutcomes :
       /\ requestPromises' =
            [requestPromises EXCEPT ![requestId] = Len(promises) + 1]
       /\ promises' = Append(promises,
            [id |-> requestId, request |-> request, sent |-> send = "sent",
             returned |-> send # "threw", state |-> "pending",
             settles |-> 0])
       /\ wire' = IF send = "sent"
                    THEN Append(wire, [call |-> Len(promises) + 1,
                                       id |-> requestId,
                                       request |-> request])
                    ELSE wire
       /\ requestId' = IF send = "threw" THEN requestId ELSE requestId + 1
  /\ Quiet
  /\ UNCHANGED <<signalHandlers, wsState, closeResult, timedOut, uncaught>>

\* ------------------------------------------------- a second TryCpClient
\* call() of a second client of the module, whose socket is open: it stores
\* its promise in its own requestPromises, under the requestId of the module,
\* and increments requestId
peerCall ==
  /\ ~uncaught
  /\ requestId < MaxPromises
  /\ peer' = peer \cup {requestId}
  /\ requestId' = requestId + 1
  /\ Quiet
  /\ UNCHANGED <<requestPromises, promises, signalHandlers, wsState,
                 closeResult, timedOut, uncaught, wire, appInterfacePort,
                 ops, lifecycle, remote, entries, signals, dht, player, run>>

\* the second client handles the response frame for one of its pending ids:
\* it settles the call and deletes the entry from its own requestPromises
peerOnMessage(id) ==
  /\ ~uncaught
  /\ id \in peer
  /\ peer' = peer \ {id}
  /\ Quiet
  /\ UNCHANGED <<requestId, requestPromises, promises, signalHandlers,
                 wsState, closeResult, timedOut, uncaught, wire,
                 appInterfacePort, ops, lifecycle, remote, entries, signals,
                 dht, player, run>>

\* ------------------------------------------ TryCpClient.setSignalHandler
\* a table that keeps the handler a port was given first
setSignalHandlerFirstWins(port, signalHandler) ==
  /\ ~uncaught
  /\ signalHandlers' =
       IF signalHandlers[port] = "undefined" \/ signalHandler = "undefined"
         THEN [signalHandlers EXCEPT ![port] = signalHandler]
         ELSE signalHandlers
  /\ Quiet
  /\ UNCHANGED <<requestId, requestPromises, promises, wsState, closeResult,
                 timedOut, uncaught, wire>>

\* a client that keeps a signal it could not deliver and hands it to the
\* handler that is registered for its port next
setSignalHandlerFlushing(port, signalHandler) ==
  LET kept == {i \in 1..Len(signals) :
                 /\ signals[i].frame.port = port
                 /\ signals[i].to = "undefined"
                 /\ signals[i].frame.data.type = "signal"}
  IN  /\ ~uncaught
      /\ signalHandlers' = [signalHandlers EXCEPT ![port] = signalHandler]
      /\ frame' = NoFrame
      /\ console' = ""
      /\ settled' = NoSettlement
      /\ delivered' =
           IF kept # {} /\ signalHandler # "undefined"
             THEN [handler |-> signalHandler,
                   signal |-> Val("signal", "",
                     signals[CHOOSE i \in kept : TRUE].frame.data.data)]
             ELSE NoDelivery
      /\ UNCHANGED <<requestId, requestPromises, promises, wsState,
                     closeResult, timedOut, uncaught, wire>>

setSignalHandler(port, signalHandler) ==
  /\ ~uncaught
  /\ signalHandlers' = [signalHandlers EXCEPT ![port] = signalHandler]
  /\ Quiet
  /\ UNCHANGED <<requestId, requestPromises, promises, wsState, closeResult,
                 timedOut, uncaught, wire>>

\* ----------------------------------------------------- TryCpClient.close
\* close() asks the socket to close; the promise it returns resolves with
\* the close code when the socket emits "close"
close ==
  /\ ~uncaught
  /\ wsState = "open"
  /\ wsState' = "closing"
  /\ Quiet
  /\ UNCHANGED <<requestId, requestPromises, promises, signalHandlers,
                 closeResult, timedOut, uncaught, wire>>

OnClose ==
  /\ ~uncaught
  /\ wsState = "closing"
  /\ wsState' = "closed"
  /\ closeResult' = CloseCode
  /\ Quiet
  /\ UNCHANGED <<requestId, requestPromises, promises, signalHandlers,
                 timedOut, uncaught, wire>>

\* the remote end or the network drops the connection: no listener of the
\* client is registered for it
ConnectionLost ==
  /\ ~uncaught
  /\ wsState = "open"
  /\ wsState' = "closed"
  /\ Quiet
  /\ UNCHANGED <<requestId, requestPromises, promises, signalHandlers,
                 closeResult, timedOut, uncaught, wire>>

\* ------------------------------------------ TryCpClient message handler
\* the message of the Error processSuccessResponse throws for an API
\* response of type "error": the fixed prefix followed by the JSON text of
\* the response's data
ApiErrorMessage == "error response from Admin API\n + JSON.stringify(data, null, 4)"

\* a processSuccessResponse that returns an API response of type "error"
\* like any other API response
processSuccessResponseNoThrow(response) ==
  IF response = TRYCP_SUCCESS_RESPONSE \/ response.kind = "string"
    THEN [threw |-> FALSE, val |-> response]
    ELSE deserializeApiResponse(response)

\* processSuccessResponse: a null or string response is returned as it is;
\* anything else is decoded as an API response, and an API response of type
\* "error" is thrown as an Error
processSuccessResponse(response) ==
  IF response = TRYCP_SUCCESS_RESPONSE \/ response.kind = "string"
    THEN [threw |-> FALSE, val |-> response]
    ELSE LET deserializedApiResponse == deserializeApiResponse(response)
         IN  IF deserializedApiResponse.threw
               THEN deserializedApiResponse
               ELSE IF deserializedApiResponse.val.type = "error"
                 THEN [threw |-> TRUE,
                       val |-> Val("Error", ApiErrorMessage,
                                   deserializedApiResponse.val.data)]
                 ELSE deserializedApiResponse

\* a handler without the catch clause: the error leaves the listener
Rethrown(error) ==
  /\ console' = ""
  /\ uncaught' = TRUE

\* the catch clause around the whole handler: console.error("eeafdf", error)
Caught(error) ==
  /\ console' = "eeafdf: " \o error
  /\ uncaught' = uncaught

\* the handler ran to its end without throwing
Completed(logged) ==
  /\ console' = logged
  /\ uncaught' = uncaught

\* a lookup that takes the longest-waiting entry instead of the frame's
OldestEntry(id) ==
  requestPromises[CHOOSE i \in PendingIds : \A j \in PendingIds : i <= j]

\* tryCpClient.requestPromises[responseWrapper.id]
PendingEntry(id) == requestPromises[id]

\* a handler that forgets the delete
KeepEntry(rp, id) == rp

\* delete tryCpClient.requestPromises[responseWrapper.id]
DeleteEntry(rp, id) == [rp EXCEPT ![id] = NoEntry]

\* a signal branch that invokes the handler without looking whether there
\* is one
HandleSignalUnguarded(w) ==
  LET signalHandler == signalHandlers[w.port]
      signal == deserializeTryCpSignal(w.data)
  IN  /\ IF signal.threw
           THEN /\ Caught("signal decode")
                /\ delivered' = NoDelivery
           ELSE IF signalHandler # "undefined"
             THEN /\ delivered' = [handler |-> signalHandler,
                                   signal |-> signal.val]
                  /\ Completed("")
             ELSE /\ Caught("TypeError")
                  /\ delivered' = NoDelivery
      /\ UNCHANGED <<promises, requestPromises>>
      /\ settled' = NoSettlement

\* the signal branch
HandleSignal(w) ==
  LET signalHandler == signalHandlers[w.port]
      signal == deserializeTryCpSignal(w.data)
  IN  /\ IF signalHandler # "undefined"
           THEN IF signal.threw
                  THEN /\ Caught("signal decode")
                       /\ delivered' = NoDelivery
                  ELSE /\ delivered' = [handler |-> signalHandler,
                                        signal |-> signal.val]
                       /\ Completed("")
           ELSE /\ delivered' = NoDelivery
                /\ Completed("info: no signal handler registered")
      /\ UNCHANGED <<promises, requestPromises>>
      /\ settled' = NoSettlement

\* the response branch
HandleResponse(w) ==
  /\ delivered' = NoDelivery
  /\ IF ~HasEntry(w.id)
       THEN \* destructuring undefined throws
            /\ Caught("TypeError")
            /\ settled' = NoSettlement
            /\ UNCHANGED <<promises, requestPromises>>
       ELSE LET c == PendingEntry(w.id)
                inner == processSuccessResponse(w.response.val)
            IN  CASE w.response.tag = "0" ->
                       /\ Settle(c, IF inner.threw THEN "rejected"
                                                   ELSE "resolved", inner.val)
                       /\ requestPromises' = DeleteEntry(requestPromises, w.id)
                       /\ Completed("")
                  [] w.response.tag = "1" ->
                       /\ Settle(c, "rejected", w.response.val)
                       /\ requestPromises' = DeleteEntry(requestPromises, w.id)
                       /\ Completed("")
                  [] OTHER ->
                       /\ Caught("Unknown response type")
                       /\ settled' = NoSettlement
                       /\ UNCHANGED <<promises, requestPromises>>

\* a handler that decodes the frame before it enters the try block
OnMessageDecodeOutsideTry(f) ==
  /\ ~uncaught
  /\ wsState \in {"open", "closing"}
  /\ frame' = f
  /\ LET responseWrapper == deserializeTryCpResponse(f)
     IN  IF responseWrapper.threw
           THEN /\ Rethrown("MalformedFrame")
                /\ delivered' = NoDelivery
                /\ settled' = NoSettlement
                /\ UNCHANGED <<promises, requestPromises>>
           ELSE IF responseWrapper.val.type = "signal"
             THEN HandleSignal(responseWrapper.val)
             ELSE HandleResponse(responseWrapper.val)
  /\ UNCHANGED <<requestId, signalHandlers, wsState, closeResult, timedOut,
                 wire>>

\* a handler that serves the signal handler of a port once only
OnMessageOnce(f) ==
  /\ ~uncaught
  /\ wsState \in {"open", "closing"}
  /\ frame' = f
  /\ LET responseWrapper == deserializeTryCpResponse(f)
     IN  IF responseWrapper.threw
           THEN /\ Caught("MalformedFrame")
                /\ delivered' = NoDelivery
                /\ settled' = NoSettlement
                /\ UNCHANGED <<promises, requestPromises>>
           ELSE IF responseWrapper.val.type = "signal"
             THEN HandleSignal(responseWrapper.val)
             ELSE HandleResponse(responseWrapper.val)
  /\ signalHandlers' =
       IF f.type = "signal" /\ delivered'.handler # "undefined"
         THEN [signalHandlers EXCEPT ![f.port] = "undefined"]
         ELSE signalHandlers
  /\ UNCHANGED <<requestId, wsState, closeResult, timedOut, wire>>

\* ws.on("message", ...)
OnMessage(f) ==
  /\ ~uncaught
  /\ wsState \in {"open", "closing"}
  /\ frame' = f
  /\ LET responseWrapper == deserializeTryCpResponse(f)
     IN  IF responseWrapper.threw
           THEN /\ Caught("MalformedFrame")
                /\ delivered' = NoDelivery
                /\ settled' = NoSettlement
                /\ UNCHANGED <<promises, requestPromises>>
           ELSE IF responseWrapper.val.type = "signal"
             THEN HandleSignal(responseWrapper.val)
             ELSE HandleResponse(responseWrapper.val)
  /\ UNCHANGED <<requestId, signalHandlers, wsState, closeResult, timedOut,
                 wire>>

\* ---------------------------------------------- callZome timeout expiry
\* The timeout a caller passes to a callable cell's callZome elapses while
\* the call is outstanding.  TryCpConductor.appWs().callZome takes the
\* request only, so nothing in the client reacts to it.
TimeoutElapses(c) ==
  /\ ~uncaught
  /\ c \in Calls
  /\ c \notin timedOut
  /\ Pending(c)
  /\ promises[c].returned
  /\ promises[c].request.type = "call_app_interface"
  /\ timedOut' = timedOut \cup {c}
  /\ Quiet
  /\ UNCHANGED <<requestId, requestPromises, promises, signalHandlers,
                 wsState, closeResult, uncaught, wire>>


\* ------------------------------------------------- TryCpConductor: basics
\* An operation invoked on the conductor handle: an async method.
\*   name    the method
\*   arg     its argument (a port, an app, a clone cell), 0 when none
\*   step    the request it waits for or is about to send
\*   pc      "await": suspended at `await this.tryCpClient.call(...)`,
\*           "send": about to send the request of its next step, "done"
\*   call    the promise it is suspended on
\*   calls   the promises of the calls it made, in order
\*   state   of the promise the method returned
\*   at      the lifecycle state of the handle when it was invoked
\*   port    this.appInterfacePort when it was invoked
\*   agent   installApp: the agent key the app is installed for, 0 when
\*           none is known yet
\*   info    installApp: the app info the install_app request returned
\*   result  what the method resolved to
Op(name, arg, step, pc, c, state) ==
  [name |-> name, arg |-> arg, step |-> step, pc |-> pc, call |-> c,
   calls |-> IF c = 0 THEN << >> ELSE <<c>>, state |-> state,
   at |-> lifecycle, port |-> appInterfacePort, agent |-> 0, info |-> 0,
   result |-> Undefined]

Operations == 1..Len(ops)

\* the lifecycle of the conductor handle: Unconfigured -> Configured ->
\* Running -> ShutDown, driven by the operations that succeed
LifecycleAfter(l, name) ==
  CASE l = "ShutDown" -> l
    [] name = "shutDown" -> "ShutDown"
    [] name = "configure" /\ l = "Unconfigured" -> "Configured"
    [] name = "startUp" /\ l = "Configured" -> "Running"
    [] OTHER -> l

\* assert(response === TRYCP_SUCCESS_RESPONSE) passes
IsSuccessResponse(s) == s.how = "resolved" /\ s.value.kind = "null"

\* callAdminApi / callAppApi return: the call resolved, and with neither
\* TRYCP_SUCCESS_RESPONSE nor a string
IsApiResponse(s) == s.how = "resolved" /\ s.value.kind = "api"

\* the callers await every method of the handle before they invoke the next
Idle == \A o \in Operations : ops[o].pc = "done"

\* the step a request belongs to: the type of its API message, or its type
StepOf(request) ==
  IF request.message # "" THEN request.message ELSE request.type

\* a method of the handle starts with tryCpClient.call(request) and suspends
\* on the promise; when ws.send throws the method rejects at once
Start(op, request) ==
  /\ Idle
  /\ call(request)
  /\ LET c == Len(promises) + 1
     IN  ops' = Append(ops,
           IF promises'[c].returned
             THEN [op EXCEPT !.call = c, !.calls = <<c>>]
             ELSE [op EXCEPT !.call = c, !.calls = <<c>>, !.pc = "done",
                             !.state = "rejected"])
  /\ UNCHANGED <<appInterfacePort, lifecycle, remote, entries,
                 signals, dht, peer, player, run>>

Invoke(name, arg, request) ==
  Start(Op(name, arg, StepOf(request), "await", 0, "pending"), request)

\* a method whose leading assert fails rejects without calling the client
FailLocally(name, arg) ==
  /\ ~uncaught
  /\ Idle
  /\ ops' = Append(ops, Op(name, arg, "assert", "done", 0, "rejected"))
  /\ Quiet
  /\ UNCHANGED <<requestId, requestPromises, promises, signalHandlers,
                 wsState, closeResult, timedOut, uncaught, wire,
                 appInterfacePort, lifecycle, remote, entries,
                 signals, dht, peer, player, run>>

\* ---------------------------------------- TryCpConductor: lifecycle methods
configure == Invoke("configure", 0, Request("configure_player", "", 0))

startUp == Invoke("startUp", 0, Request("startup", "", 0))

\* a shutDown that never detaches the app interface
shutDownWithoutDisconnect ==
  Invoke("shutDown", appInterfacePort, Request("shutdown", "", 0))

\* shutDown: with an app interface attached it starts with
\* disconnectAppInterface(), else with the shutdown request
shutDown ==
  IF appInterfacePort # 0
    THEN Invoke("shutDown", appInterfacePort,
                Request("disconnect_app_interface", "", appInterfacePort))
    ELSE Invoke("shutDown", 0, Request("shutdown", "", 0))

\* adminWs().attachAppInterface({port})
attachAppInterface(port) ==
  Invoke("attachAppInterface", port,
         Request("call_admin_interface", "attach_app_interface", port))

\* appWs().appInfo: callAppApi asserts that an app interface is attached
appInfo ==
  IF appInterfacePort # 0
    THEN Invoke("appInfo", appInterfacePort,
                Request("call_app_interface", "app_info", appInterfacePort))
    ELSE FailLocally("appInfo", 0)

\* a connectAppInterface without the leading assert
connectAppInterfaceUnguarded(h) ==
  Start([Op("connectAppInterface", appInterfacePort,
            "connect_app_interface", "await", 0, "pending")
           EXCEPT !.info = h],
        Request("connect_app_interface", "", appInterfacePort))

\* connectAppInterface(signalHandler): asserts that an app interface is
\* attached and sends connect_app_interface for its port
connectAppInterface(h) ==
  IF appInterfacePort # 0
    THEN Start([Op("connectAppInterface", appInterfacePort,
                   "connect_app_interface", "await", 0, "pending")
                  EXCEPT !.info = h],
               Request("connect_app_interface", "", appInterfacePort))
    ELSE FailLocally("connectAppInterface", 0)

\* disconnectAppInterface: asserts that an app interface is attached and
\* sends disconnect_app_interface for its port
disconnectAppInterface ==
  IF appInterfacePort # 0
    THEN Invoke("disconnectAppInterface", appInterfacePort,
                Request("disconnect_app_interface", "", appInterfacePort))
    ELSE FailLocally("disconnectAppInterface", 0)

\* the method returns or throws
Done(op, state) == [op EXCEPT !.pc = "done", !.state = state]

\* the method goes on to send the request of its next step
NextStep(op, step) == [op EXCEPT !.pc = "send", !.step = step]

\* ------------------------------------------------------ installed app info
\* a cell of an installed app: Provisioned, Cloned (with its clone id) or
\* Stem
Cell(kind, id, clone) == [kind |-> kind, cell_id |-> id, clone_id |-> clone]

Role(name, cells) == [role_name |-> name, cells |-> cells]

\* the cell_info objects an app_installed response may carry: role name ->
\* cells, in the order Object.keys enumerates them
CellInfos ==
  << <<Role("r1", <<Cell("provisioned", 1, "")>>)>>,
     <<Role("r1", <<Cell("provisioned", 1, ""),
                    Cell("cloned", 2, "r1.0")>>)>>,
     <<Role("r1", <<Cell("provisioned", 1, "")>>),
       Role("r2", <<Cell("provisioned", 2, ""),
                    Cell("cloned", 3, "r2.0")>>)>>,
     <<Role("r1", <<Cell("provisioned", 1, ""), Cell("stem", 0, "")>>)>>,
     <<Role("r1", <<Cell("cloned", 2, "")>>)>> >>

\* the data of an app_installed response: the app info {installed_app_id,
\* cell_info}, as a number
AppInfoData(app, i) == app * (Len(CellInfos) + 1) + i

installed_app_id(data) == data \div (Len(CellInfos) + 1)

cell_info(data) == CellInfos[data % (Len(CellInfos) + 1)]

\* getCallableCell: the cell with a callZome that calls the cell's own cell
\* id with agentPubKey as the default provenance
getCallableCell(cell, agentPubKey) ==
  [cell_id |-> cell.cell_id, clone_id |-> cell.clone_id,
   provenance |-> agentPubKey]

\* Map.prototype.set on a map kept as a sequence of entries
MapSet(m, k, v) ==
  IF \E i \in 1..Len(m) : m[i].key = k
    THEN [i \in 1..Len(m) |-> IF m[i].key = k THEN [key |-> k, cell |-> v]
                                               ELSE m[i]]
    ELSE Append(m, [key |-> k, cell |-> v])

\* a forEach that makes no callable cell for clone cells
addCellProvisionedOnly(acc, role_name, cellInfo, agentPubKey) ==
  IF cellInfo.kind = "provisioned"
    THEN [acc EXCEPT
            !.cells = Append(@, getCallableCell(cellInfo, agentPubKey)),
            !.namedCells =
               MapSet(@, role_name, getCallableCell(cellInfo, agentPubKey))]
    ELSE IF cellInfo.kind = "cloned" /\ cellInfo.clone_id # ""
      THEN acc
      ELSE [acc EXCEPT !.threw = TRUE]

\* the body of the inner forEach of enableAndGetAgentApp
addCell(acc, role_name, cellInfo, agentPubKey) ==
  IF cellInfo.kind = "provisioned"
    THEN [acc EXCEPT
            !.cells = Append(@, getCallableCell(cellInfo, agentPubKey)),
            !.namedCells =
               MapSet(@, role_name, getCallableCell(cellInfo, agentPubKey))]
    ELSE IF cellInfo.kind = "cloned" /\ cellInfo.clone_id # ""
      THEN [acc EXCEPT
              !.cells = Append(@, getCallableCell(cellInfo, agentPubKey)),
              !.namedCells =
                 MapSet(@, cellInfo.clone_id,
                        getCallableCell(cellInfo, agentPubKey))]
      ELSE [acc EXCEPT !.threw = TRUE]

RECURSIVE addCells(_, _, _, _)
\* installedAppInfo.cell_info[role_name].forEach(...), up to a throw
addCells(acc, role_name, cellInfos, agentPubKey) ==
  IF Len(cellInfos) = 0 \/ acc.threw
    THEN acc
    ELSE addCells(addCell(acc, role_name, Head(cellInfos), agentPubKey),
                  role_name, Tail(cellInfos), agentPubKey)

RECURSIVE addRoles(_, _, _)
\* Object.keys(installedAppInfo.cell_info).forEach(...), up to a throw
addRoles(acc, roles, agentPubKey) ==
  IF Len(roles) = 0 \/ acc.threw
    THEN acc
    ELSE addRoles(addCells(acc, Head(roles).role_name, Head(roles).cells,
                           agentPubKey),
                  Tail(roles), agentPubKey)

\* enableAndGetAgentApp after the app was enabled: the AgentApp, or the
\* throw "Stem cells are not implemented"
agentApp(agentPubKey, data) ==
  LET built == addRoles([threw |-> FALSE, cells |-> << >>,
                         namedCells |-> << >>],
                        cell_info(data), agentPubKey)
  IN  [threw |-> built.threw,
       val |-> [appId |-> installed_app_id(data),
                agentPubKey |-> agentPubKey,
                cells |-> built.cells,
                namedCells |-> built.namedCells]]

\* ------------------------------------------- TryCpConductor.installApp
\* installApp generates an agent key unless options.agentPubKey gives one,
\* then installs the app
installApp(installedAppId, agentPubKey) ==
  IF agentPubKey = 0
    THEN Start(Op("installApp", installedAppId, "generate_agent_pub_key",
                  "await", 0, "pending"),
               Request("call_admin_interface", "generate_agent_pub_key", 0))
    ELSE Start([Op("installApp", installedAppId, "install_app", "await",
                   0, "pending") EXCEPT !.agent = agentPubKey],
               Request("call_admin_interface", "install_app",
                       installedAppId))

\* an installApp that returns the AgentApp without enabling the app
installAppWithoutEnable(op, s) ==
  CASE op.step = "generate_agent_pub_key" ->
         IF IsApiResponse(s) /\ s.value.type = "agent_pub_key_generated"
           THEN [NextStep(op, "install_app") EXCEPT !.agent = s.value.data]
           ELSE Done(op, "rejected")
    [] OTHER ->
         IF IsApiResponse(s) /\ s.value.type = "app_installed"
              /\ ~agentApp(op.agent, s.value.data).threw
           THEN [Done(op, "resolved") EXCEPT
                   !.info = s.value.data,
                   !.result = agentApp(op.agent, s.value.data).val]
           ELSE Done(op, "rejected")

\* installApp after each await: generateAgentPubKey, adminWs().installApp,
\* then enableAndGetAgentApp, which enables the app of the returned app info
\* and throws when the response lists errors
installAppResumed(op, s) ==
  CASE op.step = "generate_agent_pub_key" ->
         IF IsApiResponse(s) /\ s.value.type = "agent_pub_key_generated"
           THEN [NextStep(op, "install_app") EXCEPT !.agent = s.value.data]
           ELSE Done(op, "rejected")
    [] op.step = "install_app" ->
         IF IsApiResponse(s) /\ s.value.type = "app_installed"
           THEN [NextStep(op, "enable_app") EXCEPT !.info = s.value.data]
           ELSE Done(op, "rejected")
    [] OTHER ->
         IF IsApiResponse(s) /\ s.value.type = "app_enabled"
              /\ s.value.data = 0
              /\ ~agentApp(op.agent, op.info).threw
           THEN [Done(op, "resolved") EXCEPT
                   !.result = agentApp(op.agent, op.info).val]
           ELSE Done(op, "rejected")

\* -------------------------------------------- clone cells and zome calls
\* appWs().createCloneCell / enableCloneCell / disableCloneCell: callAppApi
\* asserts that an app interface is attached
cloneCellCall(name, message, c) ==
  IF appInterfacePort # 0
    THEN Invoke(name, c, Request("call_app_interface", message, c))
    ELSE FailLocally(name, c)

createCloneCell == cloneCellCall("createCloneCell", "create_clone_cell", 0)

enableCloneCell(c) == cloneCellCall("enableCloneCell", "enable_clone_cell", c)

disableCloneCell(c) ==
  cloneCellCall("disableCloneCell", "disable_clone_cell", c)

\* a deleteCloneCell that sends the request of disableCloneCell
deleteCloneCellAsDisable(c) ==
  Invoke("deleteCloneCell", c,
         Request("call_admin_interface", "disable_clone_cell", c))

\* adminWs().deleteCloneCell
deleteCloneCell(c) ==
  Invoke("deleteCloneCell", c,
         Request("call_admin_interface", "delete_clone_cell", c))

\* the functions of the coordinator zome: create writes an entry, read
\* returns what was written
ZomeFns == {"create", "read"}

\* the call_zome request for function fn of cell c
CallZomeRequest(c, fn) ==
  [type |-> "call_app_interface", message |-> "call_zome", arg |-> c,
   fn |-> fn]

\* appWs().callZome: a request that is not signed needs the signing
\* credentials of the cell, else callZome throws before it calls
callZome(c, fn, credentials) ==
  IF credentials /\ appInterfacePort # 0
    THEN Invoke("callZome", c, CallZomeRequest(c, fn))
    ELSE FailLocally("callZome", c)

\* the data of a response, returned by a method
Returned(data) == Val("data", "", data)

\* a callZome that catches the error of the call and returns
callZomeSwallowing(op, s) == Done(op, "resolved")

\* callZome after the await: the response must carry a byte array as data
callZomeResumed(op, s) ==
  IF IsApiResponse(s) /\ s.value.type = "zome_call"
    THEN [Done(op, "resolved") EXCEPT !.result = Returned(s.value.data)]
    ELSE Done(op, "rejected")

\* ------------------------------------ TryCpConductor: after the await
\* configure and startUp: assert(response === TRYCP_SUCCESS_RESPONSE)
configureResumed(op, s) ==
  Done(op, IF IsSuccessResponse(s) THEN "resolved" ELSE "rejected")

\* a shutDown that sends the shutdown request again when it failed
shutDownRetried(op, s) ==
  IF ~IsSuccessResponse(s)
    THEN NextStep(op, "shutdown")
    ELSE IF op.step = "disconnect_app_interface"
      THEN NextStep(op, "shutdown")
      ELSE Done(op, "resolved")

\* shutDown: after disconnectAppInterface() returned the success response it
\* sends the shutdown request; after that one returned it, it returns
shutDownResumed(op, s) ==
  IF ~IsSuccessResponse(s)
    THEN Done(op, "rejected")
    ELSE IF op.step = "disconnect_app_interface"
      THEN NextStep(op, "shutdown")
      ELSE Done(op, "resolved")

\* a createTryCpConductor that starts the conductor up whatever the response
\* to configure_player
createTryCpConductorUnasserted(op, s) ==
  IF op.step = "configure_player"
    THEN NextStep(op, "startup")
    ELSE Done(op, IF IsSuccessResponse(s) THEN "resolved" ELSE "rejected")

\* createTryCpConductor after an await: when configure() returned it calls
\* startUp(), when startUp() returned it returns the conductor; when either
\* throws, it throws
createTryCpConductorResumed(op, s) ==
  IF ~IsSuccessResponse(s)
    THEN Done(op, "rejected")
    ELSE IF op.step = "configure_player"
      THEN NextStep(op, "startup")
      ELSE Done(op, "resolved")

\* a connectAppInterface that registers the handler whatever the response
connectAppInterfaceEager(op, s) == NextStep(op, "setSignalHandler")

\* connectAppInterface after the await: once the response passed the assert
\* it goes on to tryCpClient.setSignalHandler
connectAppInterfaceResumed(op, s) ==
  IF IsSuccessResponse(s)
    THEN NextStep(op, "setSignalHandler")
    ELSE Done(op, "rejected")

\* a method that calls the Admin or App API once and asserts the type of
\* the response
apiCallResumed(op, s, type) ==
  Done(op, IF IsApiResponse(s) /\ s.value.type = type
             THEN "resolved" ELSE "rejected")

\* a method that asserts the type of the response and returns nothing
cloneCellReturningNothing(op, s, type) == apiCallResumed(op, s, type)

\* createCloneCell, enableCloneCell and disableCloneCell assert the type of
\* the response and return its data
cloneCellResumed(op, s, type) ==
  IF IsApiResponse(s) /\ s.value.type = type
    THEN [Done(op, "resolved") EXCEPT !.result = Returned(s.value.data)]
    ELSE Done(op, "rejected")

\* an enableCloneCell that catches the error of the call and returns
enableCloneCellUnchecked(op, s) == Done(op, "resolved")

\* enableCloneCell after the await
enableCloneCellResumed(op, s) ==
  cloneCellResumed(op, s, "clone_cell_enabled")

\* the continuation of the method that was suspended on the settled call
Resumed(op, s) ==
  CASE op.name \in {"configure", "startUp", "disconnectAppInterface"} ->
         configureResumed(op, s)
    [] op.name = "connectAppInterface" -> connectAppInterfaceResumed(op, s)
    [] op.name = "createTryCpConductor" ->
         createTryCpConductorResumed(op, s)
    [] op.name = "shutDown" -> shutDownResumed(op, s)
    [] op.name = "attachAppInterface" ->
         apiCallResumed(op, s, "app_interface_attached")
    [] op.name = "appInfo" -> apiCallResumed(op, s, "app_info")
    [] op.name = "installApp" -> installAppResumed(op, s)
    [] op.name = "createCloneCell" ->
         cloneCellResumed(op, s, "clone_cell_created")
    [] op.name = "enableCloneCell" -> enableCloneCellResumed(op, s)
    [] op.name = "disableCloneCell" ->
         cloneCellResumed(op, s, "clone_cell_disabled")
    [] op.name = "deleteCloneCell" ->
         apiCallResumed(op, s, "clone_cell_deleted")
    [] op.name = "callZome" -> callZomeResumed(op, s)

\* the operations suspended on call c
Awaiting(c) == {o \in Operations : ops[o].pc = "await" /\ ops[o].call = c}

\* settling a promise resumes the method that awaits it; attachAppInterface
\* records the port of its request once the response passed its assert
Resume ==
  IF settled'.promise = 0 \/ Awaiting(settled'.promise) = {}
    THEN UNCHANGED <<appInterfacePort, ops, lifecycle>>
    ELSE LET o == CHOOSE o \in Awaiting(settled'.promise) : TRUE
             r == Resumed(ops[o], settled')
         IN  /\ ops' = [ops EXCEPT ![o] = r]
             /\ appInterfacePort' =
                  IF r.name = "attachAppInterface" /\ r.state = "resolved"
                    THEN r.arg ELSE appInterfacePort
             /\ lifecycle' =
                  IF r.state = "resolved"
                    THEN LifecycleAfter(lifecycle, r.name) ELSE lifecycle

\* the request a method sends at a step after its first
StepRequest(op) ==
  CASE op.step = "shutdown" -> Request("shutdown", "", 0)
    [] op.step = "startup" -> Request("startup", "", 0)
    [] op.step = "install_app" ->
         Request("call_admin_interface", "install_app", op.arg)
    [] op.step = "enable_app" ->
         Request("call_admin_interface", "enable_app",
                 installed_app_id(op.info))

\* a resumed method sends the request of its next step and suspends again
Advance(o) ==
  /\ o \in Operations
  /\ ops[o].pc = "send"
  /\ call(StepRequest(ops[o]))
  /\ LET c == Len(promises) + 1
     IN  ops' = [ops EXCEPT ![o] =
           IF promises'[c].returned
             THEN [@ EXCEPT !.pc = "await", !.call = c,
                            !.calls = Append(@, c)]
             ELSE [@ EXCEPT !.pc = "done", !.call = c,
                            !.calls = Append(@, c), !.state = "rejected"]]
  /\ UNCHANGED <<appInterfacePort, lifecycle, remote, entries,
                 signals, dht, peer, player, run>>

\* ------------------------------------------- TryCpConductor.on and off
\* the signal handlers the tests register
SignalCbs == <<"h1", "h2">>

\* connectAppInterface registers the signal handler for the attached port
\* and returns the response
connectReturns(o) ==
  /\ o \in Operations
  /\ ops[o].name = "connectAppInterface"
  /\ ops[o].pc = "send"
  /\ setSignalHandler(appInterfacePort,
                      IF ops[o].info = 0 THEN "undefined"
                        ELSE SignalCbs[ops[o].info])
  /\ ops' = [ops EXCEPT ![o] = Done(@, "resolved")]
  /\ UNCHANGED <<appInterfacePort, lifecycle, remote, entries, signals, dht,
                 peer, player, run>>

\* on / off: assert that an app interface is attached, then set or clear
\* the handler of its port in the client
setHandler(name, h, signalHandler) ==
  IF appInterfacePort # 0
    THEN /\ Idle
         /\ setSignalHandler(appInterfacePort, signalHandler)
         /\ ops' = Append(ops, Op(name, h, "setSignalHandler", "done", 0,
                                  "resolved"))
         /\ UNCHANGED <<appInterfacePort, lifecycle, remote, entries,
                        signals, dht, peer, player, run>>
    ELSE FailLocally(name, h)

on(h) == setHandler("on", h, SignalCbs[h])

off == setHandler("off", 0, "undefined")

\* the server sends a signal frame: the client handles it
Receive(f) ==
  /\ OnMessage(f)
  /\ signals' = Append(signals, [frame |-> f, to |-> delivered'.handler,
                                after |-> Len(ops)])
  /\ UNCHANGED <<appInterfacePort, ops, lifecycle, remote, entries, dht,
                 peer, player, run>>

\* ------------------------------------------ addAllAgentsToAllConductors
\* the conductors given to addAllAgentsToAllConductors, by their index
Conductors == 1..MaxConductors

\* the agent infos conductor a knows
InfosOf(a) == a

\* callAdminApi of the handle of conductor to: the envelope carries its id
ConductorRequest(message, to, arg) ==
  [type |-> "call_admin_interface", message |-> message, arg |-> arg,
   to |-> to]

\* the requests agentInfo({cell_id: null}) of each conductor sends
fetches == [a \in Conductors |-> ConductorRequest("agent_info", a, 0)]

\* pushes that include the conductor the infos were fetched from
pushesToAll(about, infos) ==
  [b \in Conductors |-> ConductorRequest("add_agent_info", b, infos)]

\* the inner map: addAgentInfo on every conductor whose index differs from
\* the index of the conductor the infos were fetched from
pushes(about, infos) ==
  SelectSeq([b \in Conductors |->
               ConductorRequest("add_agent_info", b, infos)],
            LAMBDA request : request.to # about)

\* the operations with requests they have yet to send in the current turn
Sending == {o \in Operations : "due" \in DOMAIN ops[o] /\ ops[o].due # << >>}

\* addAllAgentsToAllConductors maps over the conductors: every callback
\* runs up to its first await, so all fetches are sent in the turn of the
\* invocation
addAllAgentsToAllConductors ==
  /\ ~uncaught
  /\ Idle
  /\ Sending = {}
  /\ ops' = Append(ops,
       [due |-> fetches, fetched |-> {}]
         @@ Op("addAllAgentsToAllConductors", MaxConductors, "agent_info",
               "send", 0, "pending"))
  /\ Quiet
  /\ UNCHANGED <<requestId, requestPromises, promises, signalHandlers,
                 wsState, closeResult, timedOut, uncaught, wire,
                 appInterfacePort, lifecycle, remote, entries,
                 signals, dht, peer, player, run>>

\* the outer Promise.all resolves once every callback has returned, which
\* a callback does when its fetch has returned and its pushes are sent
turnEnds(op) ==
  IF op.due # << >> \/ op.pc = "done" THEN op
  ELSE IF op.fetched = Conductors THEN Done(op, "resolved")
  ELSE [op EXCEPT !.pc = "await"]

\* the next request of the turn is sent; a fetch whose send throws rejects
\* its callback and with it the outer Promise.all
sendDue(o) ==
  /\ o \in Sending
  /\ call(Head(ops[o].due))
  /\ LET c == Len(promises) + 1
         sent == [ops[o] EXCEPT !.due = Tail(@), !.call = c,
                                !.calls = Append(@, c)]
     IN  ops' = [ops EXCEPT ![o] =
           IF ~promises'[c].returned
                /\ promises'[c].request.message = "agent_info"
                /\ sent.pc # "done"
             THEN turnEnds(Done(sent, "rejected"))
             ELSE turnEnds(sent)]
  /\ UNCHANGED <<appInterfacePort, lifecycle, remote, entries,
                 signals, dht, peer, player, run>>

\* the operations that made call c
Callers(c) ==
  {o \in Operations :
     "due" \in DOMAIN ops[o]
       /\ \E i \in 1..Len(ops[o].calls) : ops[o].calls[i] = c}

\* a callback after its await of agentInfo: the response must be of type
\* agent_info, and its data are pushed to the other conductors without
\* awaiting addAgentInfo; a fetch that fails rejects the outer Promise.all.
\* Nothing awaits the promise of a push.
addAllResumed(op, request, s) ==
  IF request.message # "agent_info" THEN op
  ELSE IF IsApiResponse(s) /\ s.value.type = "agent_info"
    THEN [op EXCEPT !.fetched = @ \cup {request.to},
                    !.due = pushes(request.to, s.value.data),
                    !.pc = IF @ = "done" THEN @ ELSE "send"]
    ELSE IF op.pc = "done" THEN op ELSE Done(op, "rejected")

\* settling the promise of a call resumes the callback that awaits it
ResumeAll ==
  /\ IF settled'.promise = 0 \/ Callers(settled'.promise) = {}
       THEN UNCHANGED ops
       ELSE LET o == CHOOSE o \in Callers(settled'.promise) : TRUE
            IN  ops' = [ops EXCEPT ![o] =
                  addAllResumed(@, promises[settled'.promise].request,
                                settled')]
  /\ UNCHANGED <<appInterfacePort, lifecycle, remote, entries,
                 signals, dht, peer, player, run>>

\* the server answers a request of addAllAgentsToAllConductors; a message
\* is handled only after the current turn has sent all its requests
AnswerAll(id, outcome) ==
  /\ Sending = {}
  /\ OnMessage([type |-> "response", id |-> id, response |-> outcome])
  /\ ResumeAll

\* ------------------------------------------------ conductors and their DHT
\* an operation that runs without the TryCP client, with its result
Local(name, arg, step, info, state, result) ==
  [Op(name, arg, step, "done", 0, state) EXCEPT
     !.info = info, !.result = result]

\* a local operation is invoked and returns
Performed(op) ==
  /\ ~uncaught
  /\ Idle
  /\ Sending = {}
  /\ ops' = Append(ops, op)
  /\ Quiet
  /\ UNCHANGED <<requestId, requestPromises, promises, signalHandlers,
                 wsState, closeResult, timedOut, uncaught, wire,
                 appInterfacePort, lifecycle, remote, entries, signals,
                 peer, player, run>>

\* the cell of conductor a creates an entry with the given content: the
\* conductor holds it, and the call returns its hash
createEntry(a, content) ==
  /\ Performed(Local("callZome", a, "create", content, "resolved",
                     Returned(content)))
  /\ dht' = [dht EXCEPT ![a] = @ \cup {content}]

\* the cell of conductor b reads the entry: the call returns the content if
\* the conductor holds the entry, else null
readEntry(b, content) ==
  /\ Performed(Local("callZome", b, "read", content, "resolved",
                     Returned(IF content \in dht[b] THEN content ELSE 0)))
  /\ UNCHANGED dht

\* conductor b knows the agents of conductor a once add_agent_info with the
\* agent infos of a was acknowledged to it
Knows(b, a) ==
  \E c \in Calls :
    /\ promises[c].request.message = "add_agent_info"
    /\ promises[c].request.to = b
    /\ promises[c].request.arg = InfosOf(a)
    /\ promises[c].state = "resolved"

\* the conductors replicate an entry from a to b
Gossip(a, b) ==
  /\ ~uncaught
  /\ a # b
  /\ \E content \in dht[a] \ dht[b] :
       dht' = [dht EXCEPT ![b] = @ \cup {content}]
  /\ Quiet
  /\ UNCHANGED <<requestId, requestPromises, promises, signalHandlers,
                 wsState, closeResult, timedOut, uncaught, wire,
                 appInterfacePort, ops, lifecycle, remote, entries,
                 signals, peer, player, run>>

\* the consistency condition: all conductors hold the same entries
Synced(d) == \A a, b \in Conductors : d[a] = d[b]

\* the operations of the given name that wait to be resumed
Waiting(name) ==
  {o \in Operations : ops[o].name = name /\ ops[o].pc = "await"}

\* a waiting operation returns or throws
Resumes(o, state, result) ==
  /\ ~uncaught
  /\ ops' = [ops EXCEPT ![o] = [Done(@, state) EXCEPT !.result = result]]
  /\ Quiet
  /\ UNCHANGED <<requestId, requestPromises, promises, signalHandlers,
                 wsState, closeResult, timedOut, uncaught, wire,
                 appInterfacePort, lifecycle, remote, entries, signals,
                 dht, peer, player, run>>

\* ------------------------------------------------- createTryCpConductor
\* createTryCpConductor(tryCpClient, options): unless options.startup is
\* false it starts with conductor.configure(); else it returns the new
\* conductor at once.  The argument of the operation is 1 for the default
\* and 0 for startup: false.
createTryCpConductor(startup) ==
  IF startup
    THEN Invoke("createTryCpConductor", 1,
                Request("configure_player", "", 0))
    ELSE /\ Performed(Local("createTryCpConductor", 0, "return", 0,
                            "resolved", Undefined))
         /\ UNCHANGED dht

\* ------------------------------------------------------------ awaitDhtSync
\* the error of a wait for consistency whose timeout elapsed
ConsistencyTimeout == Val("Error", "ConsistencyTimeout", 0)

\* awaitDhtSync(conductors, cellId) starts to poll the conductors
awaitDhtSync ==
  /\ Performed([Op("awaitDhtSync", MaxConductors, "poll", "await", 0,
                   "pending") EXCEPT !.info = 0])
  /\ UNCHANGED dht

\* a wait that returns at its first poll, whatever the conductors hold
dhtSyncReturnsAtOnce(o) ==
  /\ o \in Waiting("awaitDhtSync")
  /\ Resumes(o, "resolved", Undefined)

\* a poll finds that all conductors hold the same entries: the wait returns
dhtSyncPolls(o) ==
  /\ o \in Waiting("awaitDhtSync")
  /\ Synced(dht)
  /\ Resumes(o, "resolved", Undefined)

\* the timeout elapses before a poll found the conductors in sync
dhtSyncTimesOut(o) ==
  /\ o \in Waiting("awaitDhtSync")
  /\ Resumes(o, "rejected", ConsistencyTimeout)

\* ------------------------------------------------ ScenarioApi.consistency
\* consistency(players): with players given the executor of the promise
\* throws, which rejects the promise; else it registers resolve and reject
\* with the waiter.  players is the number of players given, 0 for none.
Unsupported == Val("Error", "unsupported", 0)

consistency(players) ==
  /\ IF players # 0
       THEN Performed(Local("consistency", players, "throw", 0, "rejected",
                            Unsupported))
       ELSE Performed(Op("consistency", 0, "registerCallback", "await", 0,
                         "pending"))
  /\ UNCHANGED dht

\* The waiter invokes the resolve callback.  No observation is ever handed
\* to the waiter (onSignal ignores the signals), so it sees nothing pending
\* whatever the conductors hold.
waiterResolves(o) ==
  /\ o \in Waiting("consistency")
  /\ Resumes(o, "resolved", Returned(0))

\* the waiter invokes the reject callback
waiterRejects(o) ==
  /\ o \in Waiting("consistency")
  /\ Resumes(o, "rejected", Val("Error", "waiter", 0))

\* ------------------------------------------------------------------ Player
\* The player is a record
\*   conductor  this._conductor, 0 for null
\*   spawned    the number of conductors this._spawnConductor created
\*   joins      the number of invocations of onJoin
\*   leaves     the number of invocations of onLeave
\*   killed     the conductors whose kill was invoked, in order
\*   tasks      the invocations of spawn and kill, in order
\* An invocation of spawn or kill is a record
\*   name    "spawn" or "kill"
\*   pc      the await it is suspended at: "onJoin", "spawnConductor",
\*           "initialize", "kill", "onLeave", or "done"
\*   c       the conductor it spawns or kills, 0 when none
\*   result  what it returned: "undefined", "true", "false", "error" when it
\*           threw, "pending" while it runs
\*   held    this._conductor when it was invoked

\* a kill that leaves this._conductor as it is until the conductor is killed
killKeepingConductor ==
  /\ player' =
       IF player.conductor # 0
         THEN [player EXCEPT
                 !.killed = Append(@, player.conductor),
                 !.tasks = Append(@, [name |-> "kill", pc |-> "kill",
                                      c |-> player.conductor,
                                      result |-> "pending",
                                      held |-> player.conductor])]
         ELSE [player EXCEPT
                 !.tasks = Append(@, [name |-> "kill", pc |-> "done",
                                      c |-> 0, result |-> "false",
                                      held |-> 0])]
  /\ UNCHANGED <<requestId, requestPromises, promises, settled,
                 signalHandlers, wsState, closeResult, frame, console,
                 delivered, timedOut, uncaught, wire, appInterfacePort, ops,
                 lifecycle, remote, entries, signals, dht, peer, run>>

\* spawn(spawnArgs): when a conductor is held it warns and returns; else it
\* invokes onJoin and awaits what it returned
spawn ==
  /\ player' =
       IF player.conductor # 0
         THEN [player EXCEPT
                 !.tasks = Append(@, [name |-> "spawn", pc |-> "done",
                                      c |-> 0, result |-> "undefined",
                                      held |-> player.conductor])]
         ELSE [player EXCEPT
                 !.joins = @ + 1,
                 !.tasks = Append(@, [name |-> "spawn", pc |-> "onJoin",
                                      c |-> 0, result |-> "pending",
                                      held |-> 0])]
  /\ UNCHANGED <<requestId, requestPromises, promises, settled,
                 signalHandlers, wsState, closeResult, frame, console,
                 delivered, timedOut, uncaught, wire, appInterfacePort, ops,
                 lifecycle, remote, entries, signals, dht, peer, run>>

\* kill(signal): when a conductor is held it clears this._conductor, invokes
\* kill of the conductor and awaits it; else it warns and returns false
kill ==
  /\ player' =
       IF player.conductor # 0
         THEN [player EXCEPT
                 !.conductor = 0,
                 !.killed = Append(@, player.conductor),
                 !.tasks = Append(@, [name |-> "kill", pc |-> "kill",
                                      c |-> player.conductor,
                                      result |-> "pending",
                                      held |-> player.conductor])]
         ELSE [player EXCEPT
                 !.tasks = Append(@, [name |-> "kill", pc |-> "done",
                                      c |-> 0, result |-> "false",
                                      held |-> 0])]
  /\ UNCHANGED <<requestId, requestPromises, promises, settled,
                 signalHandlers, wsState, closeResult, frame, console,
                 delivered, timedOut, uncaught, wire, appInterfacePort, ops,
                 lifecycle, remote, entries, signals, dht, peer, run>>

\* The promise invocation t of spawn or kill awaits is settled, fulfilled if
\* ok is set, and the invocation goes on to its next await or returns:
\*   spawn  after onJoin it invokes this._spawnConductor; after that it
\*          assigns this._conductor and invokes initialize; then it returns
\*   kill   after the kill of the conductor it invokes onLeave; then it
\*          returns true
\* A rejected promise makes the invocation throw.  What onJoin and onLeave
\* return is no promise and cannot reject.
playerResumes(t, ok) ==
  /\ t \in 1..Len(player.tasks)
  /\ player.tasks[t].pc # "done"
  /\ player.tasks[t].pc \in {"onJoin", "onLeave"} => ok
  /\ LET task == player.tasks[t]
         goes(pc, c) ==
           [player.tasks EXCEPT ![t] = [@ EXCEPT !.pc = pc, !.c = c]]
         ends(result) ==
           [player.tasks EXCEPT
              ![t] = [@ EXCEPT !.pc = "done", !.result = result]]
     IN  player' =
           CASE ~ok -> [player EXCEPT !.tasks = ends("error")]
             [] ok /\ task.pc = "onJoin" ->
                  [player EXCEPT
                     !.spawned = @ + 1,
                     !.tasks = goes("spawnConductor", player.spawned + 1)]
             [] ok /\ task.pc = "spawnConductor" ->
                  [player EXCEPT
                     !.conductor = task.c,
                     !.tasks = goes("initialize", task.c)]
             [] ok /\ task.pc = "initialize" ->
                  [player EXCEPT !.tasks = ends("undefined")]
             [] ok /\ task.pc = "kill" ->
                  [player EXCEPT
                     !.leaves = @ + 1,
                     !.tasks = goes("onLeave", task.c)]
             [] ok /\ task.pc = "onLeave" ->
                  [player EXCEPT !.tasks = ends("true")]
  /\ UNCHANGED <<requestId, requestPromises, promises, settled,
                 signalHandlers, wsState, closeResult, frame, console,
                 delivered, timedOut, uncaught, wire, appInterfacePort, ops,
                 lifecycle, remote, entries, signals, dht, peer, run>>

\* ------------------------------------------------ Orchestrator.runScenario
\* A run of runScenario is a record
\*   pc        the await it is suspended at: "prepareRun", "scenario",
\*             "cleanupRun", or "done"
\*   i         the conductor whose prepareRun or cleanupRun it awaits
\*   prepared  the conductors whose prepareRun completed
\*   cleaned   the conductors whose cleanupRun was invoked
\*   threw     where the exception the run settles with was thrown, "" if
\*             none: one thrown in the finally block replaces an earlier one
\*   result    "pending", "undefined" when it returned, "error" when it
\*             threw

\* runScenario(scenario) is invoked once the run before it has settled: it
\* enters the first try block and invokes prepareRun of the first conductor
runScenario ==
  /\ \A r \in 1..Len(run) : run[r].pc = "done"
  /\ run' = Append(run, [pc |-> "prepareRun", i |-> 1, prepared |-> {},
                         cleaned |-> {}, threw |-> "",
                         result |-> "pending"])
  /\ UNCHANGED <<requestId, requestPromises, promises, settled,
                 signalHandlers, wsState, closeResult, frame, console,
                 delivered, timedOut, uncaught, wire, appInterfacePort, ops,
                 lifecycle, remote, entries, signals, dht, peer, player>>

\* The promise run r awaits is settled, fulfilled if ok is set:
\*   prepareRun  on success the loop goes on to the next conductor, and
\*               after the last one to the try block of the scenario; on
\*               failure the catch block logs and rethrows
\*   scenario    on success and on failure (failTest rethrows in the catch
\*               block) the finally block starts to clean up
\*   cleanupRun  on success the loop goes on to the next conductor, and
\*               after the last one the run settles the way the scenario
\*               did; on failure the catch block logs and rethrows
runResumes(r, ok) ==
  /\ r \in 1..Len(run)
  /\ run[r].pc # "done"
  /\ LET this == run[r]
         last == this.i = MaxConductors
         threw == IF ok THEN this.threw ELSE this.pc
     IN  run' = [run EXCEPT ![r] =
           CASE this.pc = "prepareRun" /\ ok /\ ~last ->
                  [this EXCEPT !.prepared = @ \cup {this.i}, !.i = @ + 1]
             [] this.pc = "prepareRun" /\ ok /\ last ->
                  [this EXCEPT !.prepared = @ \cup {this.i},
                               !.pc = "scenario"]
             [] this.pc = "prepareRun" /\ ~ok ->
                  [this EXCEPT !.pc = "done", !.threw = threw,
                               !.result = "error"]
             [] this.pc = "scenario" ->
                  [this EXCEPT !.pc = "cleanupRun", !.i = 1,
                               !.cleaned = {1}, !.threw = threw]
             [] this.pc = "cleanupRun" /\ ok /\ ~last ->
                  [this EXCEPT !.i = @ + 1, !.cleaned = @ \cup {this.i + 1}]
             [] this.pc = "cleanupRun" /\ ok /\ last ->
                  [this EXCEPT !.pc = "done",
                               !.result = IF this.threw = ""
                                            THEN "undefined" ELSE "error"]
             [] this.pc = "cleanupRun" /\ ~ok ->
                  [this EXCEPT !.pc = "done", !.threw = threw,
                               !.result = "error"]]
  /\ UNCHANGED <<requestId, requestPromises, promises, settled,
                 signalHandlers, wsState, closeResult, frame, console,
                 delivered, timedOut, uncaught, wire, appInterfacePort, ops,
                 lifecycle, remote, entries, signals, dht, peer, player>>

\* ------------------------------------------------- the TryCP server's side
SuccessOutcome(v) == [tag |-> "0", val |-> v]

ErrorOutcomes == {[tag |-> "1", val |-> Str(1)]}

\* the responses the handle's method expects for a request
Expected(request) ==
  CASE request.message = "attach_app_interface" ->
         {SuccessOutcome(Val("bytes", "app_interface_attached",
                             request.arg))}
    [] request.message = "app_info" ->
         {SuccessOutcome(Val("bytes", "app_info", request.arg))}
    [] request.message = "generate_agent_pub_key" ->
         {SuccessOutcome(Val("bytes", "agent_pub_key_generated", k)) :
            k \in GeneratedKeys}
    [] request.message = "install_app" ->
         {SuccessOutcome(Val("bytes", "app_installed",
                             AppInfoData(request.arg, i))) :
            i \in 1..Len(CellInfos)}
    [] request.message = "enable_app" ->
         {SuccessOutcome(Val("bytes", "app_enabled", errors)) :
            errors \in {0, 1}}
    [] request.message = "agent_info" ->
         {SuccessOutcome(Val("bytes", "agent_info", InfosOf(request.to)))}
    [] request.message = "add_agent_info" ->
         {SuccessOutcome(Val("bytes", "agent_info_added", 0))}
    [] OTHER -> {SuccessOutcome(TRYCP_SUCCESS_RESPONSE)}

\* what the server may answer a request with: the success response, a
\* response the method expects, a TryCP error, or an error of the API
Answers(request) ==
  {SuccessOutcome(TRYCP_SUCCESS_RESPONSE)} \cup Expected(request)
    \cup ErrorOutcomes
    \cup IF request.message = "" THEN {}
         ELSE {SuccessOutcome(Val("bytes", "error", 1))}

\* the server answers the request that was sent under id
Answer(id, outcome) ==
  /\ OnMessage([type |-> "response", id |-> id, response |-> outcome])
  /\ Resume

\* ------------------------------------------------- the conductor's side
\* the errors of the conductor's clone cell lifecycle
RemoteErrors == <<"CellNotCallable", "UnknownCell", "InvalidState">>

ErrorCode(name) == CHOOSE i \in 1..Len(RemoteErrors) : RemoteErrors[i] = name

ApiError(name) == SuccessOutcome(Val("bytes", "error", ErrorCode(name)))

ApiSuccess(type, data) == SuccessOutcome(Val("bytes", type, data))

\* the clone cells the conductor has not created yet
Unused(r) == {c \in CloneIds : r[c] = "None"}

\* The conductor serves a request: the outcome it answers with, and the
\* state of its clone cells and their entries afterwards.  A clone cell is
\* callable once it is created; Enabled <-> Disabled by disable and enable,
\* Disabled -> Deleted by delete; only an Enabled clone cell serves zome
\* calls.  create_clone_cell, enable_clone_cell and disable_clone_cell
\* answer with the clone id and cell id of the clone cell; the create
\* function writes an entry and the read function returns what was written.
Served(request, r, e) ==
  LET c == request.arg
      known == c \in CloneIds /\ r[c] \notin {"None", "Deleted"}
      ok(type, to) == [outcome |-> ApiSuccess(type, c),
                       remote |-> [r EXCEPT ![c] = to], entries |-> e]
      failed(name) == [outcome |-> ApiError(name), remote |-> r,
                       entries |-> e]
  IN  CASE request.message = "create_clone_cell" ->
             IF Unused(r) = {}
               THEN failed("InvalidState")
               ELSE LET new == CHOOSE n \in Unused(r) :
                                 \A m \in Unused(r) : n <= m
                    IN  [outcome |-> ApiSuccess("clone_cell_created", new),
                         remote |-> [r EXCEPT ![new] = "Enabled"],
                         entries |-> e]
        [] request.message = "enable_clone_cell" ->
             IF ~known THEN failed("UnknownCell")
             ELSE IF r[c] = "Disabled"
               THEN ok("clone_cell_enabled", "Enabled")
               ELSE failed("InvalidState")
        [] request.message = "disable_clone_cell" ->
             IF ~known THEN failed("UnknownCell")
             ELSE IF r[c] = "Enabled"
               THEN ok("clone_cell_disabled", "Disabled")
               ELSE failed("InvalidState")
        [] request.message = "delete_clone_cell" ->
             IF ~known THEN failed("UnknownCell")
             ELSE IF r[c] = "Disabled"
               THEN ok("clone_cell_deleted", "Deleted")
               ELSE failed("InvalidState")
        [] request.message = "call_zome" ->
             IF c \in CloneIds /\ r[c] = "Enabled"
               THEN IF request.fn = "create"
                 THEN [outcome |-> ApiSuccess("zome_call", e[c] + 1),
                       remote |-> r,
                       entries |-> [e EXCEPT ![c] = e[c] + 1]]
                 ELSE [outcome |-> ApiSuccess("zome_call", e[c]),
                       remote |-> r, entries |-> e]
               ELSE failed("CellNotCallable")
        [] OTHER ->
             [outcome |-> CHOOSE x \in Expected(request) : TRUE,
              remote |-> r, entries |-> e]

\* the conductor serves the request that was sent under id and answers it
Serve(id) ==
  LET served ==
        Served(promises[requestPromises[id]].request, remote, entries)
  IN  /\ Answer(id, served.outcome)
      /\ remote' = served.remote
      /\ entries' = served.entries
      /\ UNCHANGED <<signals, dht, peer, player, run>>

\* the connection to the server is lost
HandleConnectionLost ==
  /\ ConnectionLost
  /\ lifecycle' = "ShutDown"
  /\ UNCHANGED <<appInterfacePort, ops, remote, entries, signals, dht,
                 peer, player, run>>

\* ---------------------------------------------------------- specification
\* the client used directly: the conductor handle is not involved
Next ==
  \/ \E request \in AdminRequests :
       Len(promises) < MaxCalls /\ call(request) /\ UNCHANGED handleVars
  \/ \E port \in Ports, h \in Handlers \cup {"undefined"} :
       setSignalHandler(port, h) /\ UNCHANGED handleVars
  \/ \E f \in Frames : OnMessage(f) /\ UNCHANGED handleVars
  \/ close /\ UNCHANGED handleVars
  \/ OnClose /\ UNCHANGED handleVars
  \/ ConnectionLost /\ UNCHANGED handleVars

Spec == Init /\ [][Next]_vars

\* the client with callers that pass timeouts to callZome
NextTimeout ==
  \/ \E request \in RequestTypes :
       Len(promises) < MaxCalls /\ call(request) /\ UNCHANGED handleVars
  \/ \E f \in ResponseFrames : OnMessage(f) /\ UNCHANGED handleVars
  \/ \E c \in 1..MaxCalls : TimeoutElapses(c) /\ UNCHANGED handleVars

SpecTimeout == Init /\ [][NextTimeout]_vars

\* the conductor handle: its lifecycle methods and the app interface
NextHandle ==
  \/ Len(ops) < MaxOps /\ configure
  \/ Len(ops) < MaxOps /\ startUp
  \/ Len(ops) < MaxOps /\ shutDown
  \/ \E port \in Ports : Len(ops) < MaxOps /\ attachAppInterface(port)
  \/ Len(ops) < MaxOps /\ appInfo
  \/ \E o \in 1..MaxOps : Advance(o)
  \/ \E id \in PendingIds :
       \E outcome \in Answers(promises[requestPromises[id]].request) :
         /\ Answer(id, outcome)
         /\ UNCHANGED <<remote, entries, signals, dht, peer, player, run>>
  \/ HandleConnectionLost

SpecHandle == Init /\ [][NextHandle]_vars

\* the conductor handle installing an app
NextInstall ==
  \/ \E app \in AppIds, agentPubKey \in AgentKeys \cup {0} :
       Len(ops) < 2 /\ installApp(app, agentPubKey)
  \/ \E o \in 1..MaxOps : Advance(o)
  \/ \E id \in PendingIds :
       \E outcome \in Answers(promises[requestPromises[id]].request) :
         /\ Answer(id, outcome)
         /\ UNCHANGED <<remote, entries, signals, dht, peer, player, run>>

SpecInstall == Init /\ [][NextInstall]_vars

\* the operations invoked and the signals received so far
Events == Len(ops) + Len(signals)

\* a conductor handle that attaches app interfaces and registers signal
\* handlers while the server sends signals
NextSignals ==
  \/ \E port \in Ports : Events < MaxOps + 1 /\ attachAppInterface(port)
  \/ \E id \in PendingIds :
       \E outcome \in Expected(promises[requestPromises[id]].request) :
         /\ Answer(id, outcome)
         /\ UNCHANGED <<remote, entries, signals, dht, peer, player, run>>
  \/ \E h \in 1..Len(SignalCbs) : Events < MaxOps + 1 /\ on(h)
  \/ Events < MaxOps + 1 /\ off
  \/ Events < MaxOps + 1 /\ disconnectAppInterface
  \/ \E f \in SignalFrames : Events < MaxOps + 1 /\ Receive(f)

SpecSignals == Init /\ [][NextSignals]_vars

\* two clients of the module, each with its own connection, used side by
\* side
NextConnections ==
  \/ \E request \in AdminRequests :
       Len(promises) < MaxCalls /\ call(request) /\ UNCHANGED handleVars
  \/ Cardinality(peer) < MaxCalls /\ requestId < 2 * MaxCalls /\ peerCall
  \/ \E id \in PendingIds :
       \E outcome \in Expected(promises[requestPromises[id]].request)
                        \cup ErrorOutcomes :
         /\ OnMessage([type |-> "response", id |-> id,
                       response |-> outcome])
         /\ UNCHANGED handleVars
  \/ \E id \in Ids : peerOnMessage(id)

SpecConnections == Init /\ [][NextConnections]_vars

\* addAllAgentsToAllConductors on conductors that share a TryCP client
NextAgents ==
  \/ Len(ops) = 0 /\ addAllAgentsToAllConductors
  \/ \E o \in 1..MaxOps : sendDue(o)
  \/ \E id \in PendingIds :
       \E outcome \in Answers(promises[requestPromises[id]].request) :
         AnswerAll(id, outcome)

SpecAgents == Init /\ [][NextAgents]_vars

\* the operations of the two conductor scenario: the introduction of the
\* agents, a creation, a wait for the DHT to sync and a read
SyncOps == 4

\* addAllAgentsToAllConductors has returned and the conductors have
\* answered all its requests, and the scenario has operations left
Introduced == Len(ops) # 0 /\ PendingIds = {} /\ Len(ops) < SyncOps

\* two conductors whose agents are made known to each other, entries
\* created and read on them, and the wait for the DHT to sync in between
NextSync ==
  \/ Len(ops) = 0 /\ addAllAgentsToAllConductors
  \/ \E o \in 1..MaxOps : sendDue(o)
  \/ \E id \in PendingIds :
       \E outcome \in Expected(promises[requestPromises[id]].request) :
         AnswerAll(id, outcome)
  \/ \E a \in Conductors, content \in Texts :
       Introduced /\ createEntry(a, content)
  \/ \E b \in Conductors, content \in Texts :
       Introduced /\ readEntry(b, content)
  \/ \E a, b \in Conductors : Knows(b, a) /\ Knows(a, b) /\ Gossip(a, b)
  \/ Introduced /\ awaitDhtSync
  \/ \E o \in 1..SyncOps : dhtSyncPolls(o)
  \/ \E o \in 1..SyncOps : dhtSyncTimesOut(o)

SpecSync == Init /\ [][NextSync]_vars

\* a scenario of the ScenarioApi: players commit entries, the conductors
\* gossip, and the scenario waits for consistency
NextConsistency ==
  \/ \E a \in Conductors, content \in Texts :
       Len(ops) < MaxOps /\ createEntry(a, content)
  \/ \E a, b \in Conductors : Gossip(a, b)
  \/ \E players \in {0, MaxConductors} :
       Len(ops) < MaxOps /\ consistency(players)
  \/ \E o \in 1..MaxOps : waiterResolves(o)
  \/ \E o \in 1..MaxOps : waiterRejects(o)

SpecConsistency == Init /\ [][NextConsistency]_vars

\* the port the tests attach the app interface of a conductor to
AppPort == CHOOSE port \in Ports : \A p \in Ports : port <= p

\* a Player whose spawn and kill are invoked at any time, also while
\* earlier invocations are still running
NextPlayer ==
  \/ Len(player.tasks) < MaxOps /\ spawn
  \/ Len(player.tasks) < MaxOps /\ kill
  \/ \E t \in 1..MaxOps, ok \in BOOLEAN : playerResumes(t, ok)

SpecPlayer == Init /\ [][NextPlayer]_vars

\* the orchestrator runs its scenarios one after the other
NextRun ==
  \/ Len(run) < MaxOps /\ runScenario
  \/ \E r \in 1..MaxOps, ok \in BOOLEAN : runResumes(r, ok)

SpecRun == Init /\ [][NextRun]_vars

\* conductors created with createTryCpConductor on one TryCP client
NextCreate ==
  \/ \E startup \in BOOLEAN :
       Len(ops) < MaxOps /\ createTryCpConductor(startup)
  \/ \E o \in 1..MaxOps : Advance(o)
  \/ \E id \in PendingIds :
       \E outcome \in Answers(promises[requestPromises[id]].request) :
         /\ Answer(id, outcome)
         /\ UNCHANGED <<remote, entries, signals, dht, peer, player, run>>

SpecCreate == Init /\ [][NextCreate]_vars

\* the conductor handle and the operations that need its app interface
NextInterface ==
  \/ Len(ops) < MaxOps /\ attachAppInterface(AppPort)
  \/ \E h \in 0..1 : Len(ops) < MaxOps /\ connectAppInterface(h)
  \/ \E o \in 1..MaxOps : connectReturns(o)
  \/ Len(ops) < MaxOps /\ disconnectAppInterface
  \/ \E h \in 1..2 : Len(ops) < MaxOps /\ on(h)
  \/ Len(ops) < MaxOps /\ off
  \/ Len(ops) < MaxOps /\ appInfo
  \/ \E fn \in ZomeFns, c \in CloneIds :
       Len(ops) < MaxOps /\ callZome(c, fn, TRUE)
  \/ Len(ops) < MaxOps /\ createCloneCell
  \/ \E c \in CloneIds : Len(ops) < MaxOps /\ enableCloneCell(c)
  \/ \E c \in CloneIds : Len(ops) < MaxOps /\ disableCloneCell(c)
  \/ \E id \in PendingIds :
       \E outcome \in Expected(promises[requestPromises[id]].request)
                        \cup ErrorOutcomes :
         /\ Answer(id, outcome)
         /\ UNCHANGED <<remote, entries, signals, dht, peer, player, run>>

SpecInterface == Init /\ [][NextInterface]_vars

\* the conductor handle driving the clone cells of a conductor, after it
\* attached an app interface
NextClone ==
  \/ appInterfacePort = 0 /\ Len(ops) = 0
       /\ attachAppInterface(AppPort)
  \/ appInterfacePort # 0 /\ Len(ops) < MaxOps + 3 /\ createCloneCell
  \/ \E c \in CloneIds :
       appInterfacePort # 0 /\ Len(ops) < MaxOps + 3 /\ enableCloneCell(c)
  \/ \E c \in CloneIds :
       appInterfacePort # 0 /\ Len(ops) < MaxOps + 3 /\ disableCloneCell(c)
  \/ \E c \in CloneIds :
       appInterfacePort # 0 /\ Len(ops) < MaxOps + 3 /\ deleteCloneCell(c)
  \/ \E c \in CloneIds, fn \in ZomeFns, credentials \in BOOLEAN :
       appInterfacePort # 0 /\ Len(ops) < MaxOps + 3
         /\ callZome(c, fn, credentials)
  \/ \E id \in PendingIds : Serve(id)

SpecClone == Init /\ [][NextClone]_vars

TypeOK ==
  /\ requestId \in 0..MaxPromises
  /\ \A id \in Ids : requestPromises[id] \in 0..MaxPromises
  /\ Len(promises) <= MaxPromises
  /\ Len(wire) <= Len(promises)
  /\ Len(ops) <= MaxOps + 3
  /\ wsState \in {"open", "closing", "closed"}
  /\ timedOut \subseteq Calls

\* ------------------------------------------------------------ properties
Settled(c) == promises[c].state # "pending"

InFlight(c) == promises[c].sent /\ ~Settled(c)

\* the step handled a response frame
HandlesResponse == frame'.type = "response"

\* the step handled a response frame that carries a success or a failure
\* outcome and whose id has an entry in requestPromises
AnswersPending ==
  /\ HandlesResponse
  /\ frame'.response.tag \in {"0", "1"}
  /\ HasEntry(frame'.id)

\* ... and that frame settled the promise stored under its id
SettlesItsCall ==
  /\ settled'.promise = requestPromises[frame'.id]
  /\ promises[settled'.promise].state = "pending"
  /\ promises'[settled'.promise].state # "pending"
  /\ promises[settled'.promise].id = frame'.id

\* what no dropped frame may touch
Core == <<requestId, requestPromises, promises, signalHandlers, wsState,
          closeResult, timedOut, wire>>

\* C1: whenever a call's promise is settled, it is settled by a response
\* frame that carries the id the call was registered and sent under, with
\* the outcome that frame carries; the promises of the other outstanding
\* calls stay as they are, whatever the order in which the frames arrive.
IdCorrelation ==
  [][/\ settled'.promise # 0 =>
          /\ HandlesResponse
          /\ settled'.promise \in Calls
          /\ promises[settled'.promise].id = frame'.id
          /\ frame'.response.tag \in {"0", "1"}
          /\ frame'.response.tag = "1" =>
               /\ settled'.how = "rejected"
               /\ settled'.value = frame'.response.val
          /\ (frame'.response.tag = "0"
                /\ frame'.response.val.kind \in {"null", "string"}) =>
               /\ settled'.how = "resolved"
               /\ settled'.value = frame'.response.val
          /\ (frame'.response.tag = "0"
                /\ frame'.response.val.kind = "bytes") =>
               settled'.value.data = frame'.response.val.data
     /\ \A c \in Calls :
          promises'[c] # promises[c] =>
            /\ c = settled'.promise
            /\ promises'[c].state = settled'.how]_vars

\* two calls are outstanding and the response of the later one arrived first
OutOfOrderSettled ==
  /\ Len(promises) >= 2
  /\ InFlight(1)
  /\ promises[2].sent /\ Settled(2)
  /\ settled.promise = 2
  /\ frame.id = promises[2].id

\* C2: a response frame whose id has no entry in requestPromises is dropped:
\* the handler catches the error, nothing but the log changes, the connection
\* stays up, and the next response for a pending id still settles its call.
UnknownIdDropped ==
  [][/\ (HandlesResponse /\ ~HasEntry(frame'.id)) =>
          /\ UNCHANGED Core
          /\ settled' = NoSettlement
          /\ ~uncaught'
          /\ console' = "eeafdf: TypeError"
     /\ (frame.type = "response" /\ console = "eeafdf: TypeError"
           /\ AnswersPending) => SettlesItsCall]_vars

\* a response with an unknown id was dropped while calls were in flight
UnknownIdDroppedInFlight ==
  /\ frame.type = "response"
  /\ console = "eeafdf: TypeError"
  /\ \E c \in Calls : InFlight(c) /\ HasEntry(promises[c].id)
  /\ wsState = "open"

\* C3: a request id is settled exactly once: the resolve/reject pair of a
\* call is invoked at most once, its entry is gone once it is settled, and a
\* further response frame with the id of a settled call invokes no
\* resolve/reject and changes nothing.
SettledExactlyOnce ==
  [][/\ \A c \in 1..Len(promises') :
          /\ promises'[c].settles <= 1
          /\ (promises'[c].state # "pending" /\ promises'[c].sent) =>
                requestPromises'[promises'[c].id] = NoEntry
     /\ (/\ HandlesResponse
         /\ \E c \in Calls :
              promises[c].sent /\ Settled(c) /\ promises[c].id = frame'.id)
          => (UNCHANGED Core /\ settled' = NoSettlement)]_vars

\* a second response frame arrived for an id that was already settled
DuplicateResponseHandled ==
  /\ frame.type = "response"
  /\ frame.response.tag \in {"0", "1"}
  /\ settled = NoSettlement
  /\ \E c \in Calls :
       promises[c].sent /\ Settled(c) /\ promises[c].id = frame.id

\* C4: closing a connection rejects the calls that are pending on it: once
\* the connection has been closed by close(), no call that was sent on it is
\* still pending.
CloseRejectsPending ==
  (wsState = "closed" /\ closeResult = CloseCode) =>
    \A c \in Calls : promises[c].sent => Settled(c)

\* C5: a response frame whose id has an entry in requestPromises settles the
\* call stored under it and removes the entry, whatever outcome the frame
\* carries (success, failure, or neither).
ResponseAlwaysSettles ==
  [][(HandlesResponse /\ HasEntry(frame'.id)) =>
        /\ settled'.promise = requestPromises[frame'.id]
        /\ promises'[requestPromises[frame'.id]].state # "pending"
        /\ requestPromises'[frame'.id] = NoEntry]_vars

\* C6: a signal frame for a port without a registered handler is dropped
\* with an info log entry and no error, and touches nothing; signals for
\* ports that have a handler are delivered to it, and responses for pending
\* ids settle their calls, also directly after such a drop.
SignalWithoutHandlerDropped ==
  [][/\ (frame'.type = "signal"
           /\ signalHandlers[frame'.port] = "undefined") =>
          /\ UNCHANGED Core
          /\ ~uncaught'
          /\ console' = "info: no signal handler registered"
          /\ delivered' = NoDelivery
          /\ settled' = NoSettlement
     /\ (frame'.type = "signal"
           /\ signalHandlers[frame'.port] # "undefined"
           /\ frame'.data.type = "signal") =>
          delivered' = [handler |-> signalHandlers[frame'.port],
                        signal |-> Val("signal", "", frame'.data.data)]
     /\ (frame.type = "signal"
           /\ console = "info: no signal handler registered"
           /\ AnswersPending) => SettlesItsCall]_vars

\* a signal was dropped for a port without handler while another port has
\* one and a call is in flight
SignalDroppedOtherPortListening ==
  /\ frame.type = "signal"
  /\ console = "info: no signal handler registered"
  /\ \E p \in Ports : p # frame.port /\ signalHandlers[p] # "undefined"
  /\ \E c \in Calls : InFlight(c)

\* C7: a frame that does not decode is logged and dropped: it touches
\* nothing, no error leaves the handler, the connection stays as it is and
\* the next response for a pending id still settles its call.
MalformedFrameNonFatal ==
  [][/\ frame'.type = "malformed" =>
          /\ UNCHANGED Core
          /\ ~uncaught'
          /\ console' = "eeafdf: MalformedFrame"
          /\ delivered' = NoDelivery
          /\ settled' = NoSettlement
     /\ (frame.type = "malformed" /\ AnswersPending) => SettlesItsCall]_vars

\* a malformed frame was handled while a call was in flight
MalformedFrameInFlight ==
  /\ frame.type = "malformed"
  /\ wsState = "open"
  /\ \E c \in Calls : InFlight(c) /\ HasEntry(promises[c].id)

\* C8: when the timeout of an outstanding callZome elapses, the call is
\* rejected with a Timeout error and its entry leaves requestPromises, which
\* shrinks by one.
TimeoutRejectsAndRemoves ==
  [][\A c \in Calls :
       (c \in timedOut' /\ c \notin timedOut) =>
         /\ promises'[c].state = "rejected"
         /\ settled' = [promise |-> c, how |-> "rejected",
                        value |-> Val("Error", "Timeout", 0)]
         /\ requestPromises'[promises[c].id] = NoEntry
         /\ Cardinality(PendingIds') = Cardinality(PendingIds) - 1]_vars

\* C9: a response frame that arrives for the id of a call whose timeout has
\* elapsed is dropped: it settles nothing and changes neither the promises
\* nor requestPromises.
LateResponseDropped ==
  [][(HandlesResponse
        /\ \E c \in timedOut : promises[c].id = frame'.id) =>
        /\ settled' = NoSettlement
        /\ UNCHANGED <<promises, requestPromises>>]_vars

\* the outcome of a response frame is a failure: a TryCP error, or an
\* Admin/App API response of type "error"
IsFailure(outcome) ==
  \/ outcome.tag = "1"
  \/ /\ outcome.tag = "0"
     /\ outcome.val.kind = "bytes"
     /\ outcome.val.type = "error"

\* C10 as stated: a failure outcome rejects the call with the remote's error
\* text unmodified.
RemoteErrorVerbatim ==
  [][(HandlesResponse /\ HasEntry(frame'.id)
        /\ IsFailure(frame'.response)) =>
        /\ settled'.how = "rejected"
        /\ settled'.value = Str(frame'.response.val.data)]_vars

\* C10 as amended: a failure outcome rejects the call; a TryCP error
\* response rejects it with the remote's error value unmodified, an API
\* response of type "error" rejects it with an Error whose message is the
\* prefix "error response from Admin API" followed by the JSON text of the
\* remote's error data.
RemoteErrorSurfaced ==
  [][(HandlesResponse /\ HasEntry(frame'.id)
        /\ IsFailure(frame'.response)) =>
        /\ settled'.promise = requestPromises[frame'.id]
        /\ settled'.how = "rejected"
        /\ promises'[settled'.promise].state = "rejected"
        /\ settled'.value =
             IF frame'.response.tag = "1"
               THEN frame'.response.val
               ELSE Val("Error", ApiErrorMessage,
                        frame'.response.val.data)]_vars

\* a call was rejected by an API response of type "error"
ApiErrorRejected ==
  /\ frame.type = "response"
  /\ frame.response.tag = "0"
  /\ frame.response.val.type = "error"
  /\ settled.how = "rejected"
  /\ promises[settled.promise].state = "rejected"

\* --------------------------------------- properties of the conductor handle
\* the operation invoked by this step, 0 when the step invoked none
Invoked == IF Len(ops') > Len(ops) THEN Len(ops') ELSE 0

\* the envelopes on the wire that carry call c
Envelopes(c, w) == {i \in 1..Len(w) : w[i].call = c}

\* C11: every call sends its request envelope once, and not at all when the
\* socket is not open; no method of the handle sends the request of one of
\* its steps a second time, and a method that has returned or thrown sends
\* nothing more.
SentExactlyOnce ==
  [][/\ \A c \in 1..Len(promises') :
          Cardinality(Envelopes(c, wire')) =
            IF promises'[c].sent THEN 1 ELSE 0
     /\ Len(wire') <= Len(wire) + 1
     /\ \A o \in 1..Len(ops') :
          \A i, j \in 1..Len(ops'[o].calls) :
            i # j => promises'[ops'[o].calls[i]].request
                       # promises'[ops'[o].calls[j]].request
     /\ \A o \in Operations :
          ops[o].pc = "done" => ops'[o] = ops[o]]_vars

\* a method failed on a failure outcome of the server and another method
\* was invoked after it
FailedCallNotResent ==
  \E o \in Operations :
    /\ o < Len(ops)
    /\ ops[o].state = "rejected"
    /\ ops[o].calls # << >>
    /\ promises[ops[o].call].sent
    /\ promises[ops[o].call].state = "rejected"

\* C12: configure invoked on a handle that is not Unconfigured fails, and
\* startUp invoked on a handle that is not Configured fails.
LifecycleOrderEnforced ==
  \A o \in Operations :
    /\ (ops[o].name = "configure" /\ ops[o].at # "Unconfigured")
         => ops[o].state # "resolved"
    /\ (ops[o].name = "startUp" /\ ops[o].at # "Configured")
         => ops[o].state # "resolved"

\* C13: no Admin or App API operation invoked on a handle that is not
\* Running succeeds.
RunningRequired ==
  \A o \in Operations :
    (ops[o].name \in {"attachAppInterface", "appInfo"}
       /\ ops[o].at # "Running") => ops[o].state # "resolved"

\* C14: an operation invoked on a handle that is ShutDown fails at once,
\* and no request is sent for it.
ShutDownTerminal ==
  [][(Invoked # 0 /\ lifecycle = "ShutDown") =>
       /\ ops'[Invoked].state = "rejected"
       /\ wire' = wire]_vars

\* C15: a shutDown invoked on a handle that has been shut down succeeds
\* and sends no request.
ShutDownIdempotent ==
  [][(/\ Invoked # 0
      /\ ops'[Invoked].name = "shutDown"
      /\ \E o \in Operations :
           ops[o].name = "shutDown" /\ ops[o].state = "resolved") =>
       /\ ops'[Invoked].state = "resolved"
       /\ wire' = wire]_vars

\* C16: a shutDown invoked with an app interface attached first calls with
\* the disconnect_app_interface request for the attached port, and calls with
\* the shutdown request only after that call returned the success response;
\* invoked with no app interface attached it calls with the shutdown request
\* only.
ShutDownDetachesFirst ==
  [][\A o \in 1..Len(ops') :
       ops'[o].name = "shutDown" =>
         LET cs == ops'[o].calls
             first == promises'[cs[1]].request
         IN  /\ Len(cs) >= 1
             /\ o = Invoked =>
                  first = IF appInterfacePort # 0
                            THEN Request("disconnect_app_interface", "",
                                         appInterfacePort)
                            ELSE Request("shutdown", "", 0)
             /\ first.type = "shutdown" => Len(cs) = 1
             /\ Len(cs) >= 2 =>
                  /\ Len(cs) = 2
                  /\ first.type = "disconnect_app_interface"
                  /\ promises'[cs[2]].request = Request("shutdown", "", 0)
                  /\ promises'[cs[1]].state = "resolved"
             /\ (o \in Operations /\ ops[o].pc = "await"
                   /\ ops'[o].pc = "send") =>
                  /\ settled'.promise = cs[1]
                  /\ IsSuccessResponse(settled')]_vars

\* a shutDown detached the app interface, sent the shutdown request and
\* returned
ShutDownAfterDetach ==
  \E o \in Operations :
    /\ ops[o].name = "shutDown"
    /\ Len(ops[o].calls) = 2
    /\ ops[o].state = "resolved"
    /\ wire[Len(wire)].request.type = "shutdown"

\* C17: attachAppInterface invoked while an app interface is attached fails
\* and leaves the recorded port as it is.
SingleAppInterface ==
  [][\A o \in Operations :
       (ops[o].name = "attachAppInterface" /\ ops[o].port # 0) =>
         /\ ops'[o].state # "resolved"
         /\ ops'[o] # ops[o] => appInterfacePort' = appInterfacePort]_vars

\* the requests of the calls operation op made, in order
Requests(op, ps) == [i \in 1..Len(op.calls) |-> ps[op.calls[i]].request]

\* C18: installApp calls with the install_app request at most once and
\* before the enable_app request; once install_app returned the app info it
\* goes on to the enable_app request for the installed app's id, which is
\* its last call and made once; it resolves only when that call returned
\* an app_enabled response without errors.
InstallThenEnable ==
  [][\A o \in 1..Len(ops') :
       ops'[o].name = "installApp" =>
         LET op == ops'[o]
             reqs == Requests(op, promises')
             inst == {i \in 1..Len(reqs) : reqs[i].message = "install_app"}
             en == {i \in 1..Len(reqs) : reqs[i].message = "enable_app"}
         IN  /\ Cardinality(inst) <= 1
             /\ Cardinality(en) <= 1
             /\ \A j \in inst : reqs[j].arg = op.arg
             /\ \A i \in en :
                  /\ i = Len(reqs)
                  /\ reqs[i].arg = op.arg
                  /\ reqs[i].arg = installed_app_id(op.info)
                  /\ \E j \in inst :
                       j < i /\ promises'[op.calls[j]].state = "resolved"
             /\ op.state = "resolved" =>
                  /\ Cardinality(en) = 1
                  /\ promises'[op.calls[Len(reqs)]].state = "resolved"
             /\ (/\ o \in Operations
                 /\ ops[o].pc = "await"
                 /\ ops[o].step = "install_app"
                 /\ settled'.promise = ops[o].call
                 /\ IsApiResponse(settled')
                 /\ settled'.value.type = "app_installed") =>
                  (op.pc = "send" /\ op.step = "enable_app")
             /\ (/\ o \in Operations
                 /\ ops[o].state = "pending"
                 /\ op.state = "resolved") =>
                  /\ ops[o].step = "enable_app"
                  /\ settled'.promise = ops[o].call
                  /\ settled'.how = "resolved"
                  /\ settled'.value.type = "app_enabled"
                  /\ settled'.value.data = 0]_vars

\* an installApp generated a key, installed and enabled the app and
\* resolved
InstalledAndEnabled ==
  \E o \in Operations :
    /\ ops[o].name = "installApp"
    /\ ops[o].state = "resolved"
    /\ Len(ops[o].calls) = 3
    /\ wire[Len(wire)].request.message = "enable_app"

\* the cells an app info declares
Declared(ci) ==
  {<<r, j>> \in (1..Len(ci)) \X (1..2) : j <= Len(ci[r].cells)}

\* C19: the AgentApp installApp resolves to carries the installed app's id
\* and the agent key, one callable cell for every cell the app info
\* declares, with that cell's id and the agent key as default provenance,
\* and namedCells maps every role name to the role's provisioned cell and
\* every clone id to its clone cell.
AgentAppCells ==
  \A o \in Operations :
    (ops[o].name = "installApp" /\ ops[o].state = "resolved") =>
      LET app == ops[o].result
          ci == cell_info(ops[o].info)
          keys == {ci[d[1]].role_name : d \in
                     {e \in Declared(ci) :
                        ci[e[1]].cells[e[2]].kind = "provisioned"}}
                  \cup {ci[d[1]].cells[d[2]].clone_id : d \in
                     {e \in Declared(ci) :
                        ci[e[1]].cells[e[2]].kind = "cloned"}}
      IN  /\ app.appId = installed_app_id(ops[o].info)
          /\ app.appId = ops[o].arg
          /\ ops[o].agent # 0
          /\ app.agentPubKey = ops[o].agent
          /\ Len(app.cells) = Cardinality(Declared(ci))
          /\ Len(app.namedCells) = Cardinality(keys)
          /\ \A k \in 1..Len(app.cells) :
               app.cells[k].provenance = ops[o].agent
          /\ \A d \in Declared(ci) :
               LET cell == ci[d[1]].cells[d[2]]
                   key == IF cell.kind = "provisioned"
                            THEN ci[d[1]].role_name ELSE cell.clone_id
               IN  /\ cell.kind \in {"provisioned", "cloned"}
                   /\ Cardinality({k \in 1..Len(app.cells) :
                         app.cells[k].cell_id = cell.cell_id}) = 1
                   /\ \E n \in 1..Len(app.namedCells) :
                        /\ app.namedCells[n].key = key
                        /\ app.namedCells[n].cell.cell_id = cell.cell_id
                        /\ app.namedCells[n].cell.provenance = ops[o].agent

\* an installApp resolved to an AgentApp of two roles with a clone cell
AgentAppWithClone ==
  \E o \in Operations :
    /\ ops[o].name = "installApp"
    /\ ops[o].state = "resolved"
    /\ Len(ops[o].result.cells) = 3
    /\ \E k \in 1..3 : ops[o].result.cells[k].clone_id = "r2.0"

\* the request a response frame answers
Answered(f) == promises[requestPromises[f.id]].request

Completes(o) ==
  /\ ops[o].pc = "await"
  /\ ops'[o].pc = "done"
  /\ frame'.type = "response"

\* the API error the caller of a failed operation receives
Failure(name) == Val("Error", ApiErrorMessage, ErrorCode(name))

DeletedIsTerminal ==
  [][\A c \in CloneIds :
       remote[c] = "Deleted" =>
         /\ remote'[c] = "Deleted"
         /\ \A o \in Operations :
              (/\ ops[o].arg = c
               /\ ops[o].name \in {"enableCloneCell", "disableCloneCell",
                                   "deleteCloneCell", "callZome"}
               /\ Completes(o)) =>
                /\ ops'[o].state = "rejected"
                /\ settled'.how = "rejected"
                /\ settled'.value =
                     Failure(IF ops[o].name = "callZome"
                               THEN "CellNotCallable" ELSE "UnknownCell")]_vars

\* enableCloneCell for a Deleted clone cell failed
DeletedCloneNotEnabled ==
  /\ frame.type = "response"
  /\ settled.value = Failure("UnknownCell")
  /\ \E o \in Operations :
       /\ ops[o].name = "enableCloneCell"
       /\ ops[o].call = settled.promise
       /\ ops[o].state = "rejected"
       /\ remote[ops[o].arg] = "Deleted"

\* the function a callZome operation called
FnOf(op) == promises[op.call].request.fn

\* C23: enableCloneCell on a Disabled clone cell succeeds and returns the
\* clone id and cell id createCloneCell returned, the clone cell is Enabled
\* afterwards, neither disabling nor enabling changes what was written to
\* the cell, and a read of an Enabled clone cell returns what was written.
EnableRestoresClone ==
  [][\A o \in Operations :
       /\ (/\ ops[o].name = "enableCloneCell"
           /\ Completes(o)
           /\ remote[ops[o].arg] = "Disabled") =>
            /\ ops'[o].state = "resolved"
            /\ ops'[o].result = Returned(ops[o].arg)
            /\ \E e \in Operations :
                 /\ ops[e].name = "createCloneCell"
                 /\ ops[e].state = "resolved"
                 /\ ops[e].result = ops'[o].result
            /\ remote'[ops[o].arg] = "Enabled"
            /\ entries' = entries
       /\ (ops[o].name = "disableCloneCell" /\ Completes(o)) =>
            entries' = entries
       /\ (/\ ops[o].name = "callZome"
           /\ Completes(o)
           /\ FnOf(ops[o]) = "read"
           /\ remote[ops[o].arg] = "Enabled") =>
            /\ ops'[o].state = "resolved"
            /\ ops'[o].result = Returned(entries[ops[o].arg])
            /\ entries' = entries]_vars

\* an entry was written to a clone cell, the cell was disabled and enabled
\* again, and then the entry was read
RestoredCloneRead ==
  \E w, d, e, r \in Operations :
    /\ w < d /\ d < e /\ e < r
    /\ ops[w].name = "callZome" /\ ops[w].state = "resolved"
    /\ FnOf(ops[w]) = "create"
    /\ ops[d].name = "disableCloneCell" /\ ops[d].state = "resolved"
    /\ ops[e].name = "enableCloneCell" /\ ops[e].state = "resolved"
    /\ ops[r].name = "callZome" /\ ops[r].state = "resolved"
    /\ FnOf(ops[r]) = "read"
    /\ ops[r].result = ops[w].result
    /\ ops[w].arg = ops[r].arg /\ ops[d].arg = ops[r].arg
    /\ ops[e].arg = ops[r].arg
    /\ remote[ops[r].arg] = "Enabled"

\* the invocations of addAllAgentsToAllConductors
Broadcasts ==
  {o \in Operations : ops[o].name = "addAllAgentsToAllConductors"}

\* the add_agent_info requests operation o sent to conductor b with the
\* agent infos fetched from conductor a
Pushed(o, a, b) ==
  {i \in 1..Len(ops[o].calls) :
     LET p == promises[ops[o].calls[i]]
     IN  /\ p.sent
         /\ p.request.message = "add_agent_info"
         /\ p.request.to = b
         /\ p.request.arg = InfosOf(a)}

\* C24: addAllAgentsToAllConductors sends to no conductor its own agent
\* infos and to every other conductor at most one add_agent_info request
\* with the infos fetched from a conductor; when it has resolved it has sent
\* exactly one for every ordered pair of distinct conductors.
AllPairsPushed ==
  \A o \in Broadcasts :
    \A a, b \in Conductors :
      /\ a = b => Pushed(o, a, b) = {}
      /\ Cardinality(Pushed(o, a, b)) <= 1
      /\ (a # b /\ a \in ops[o].fetched /\ ops[o].due = << >>) =>
           Cardinality(Pushed(o, a, b)) = 1
      /\ (a # b /\ ops[o].state = "resolved") =>
           Cardinality(Pushed(o, a, b)) = 1

\* addAllAgentsToAllConductors has resolved
AllAgentsShared ==
  \E o \in Broadcasts :
    /\ ops[o].state = "resolved"
    /\ \A a, b \in Conductors :
         a # b => Cardinality(Pushed(o, a, b)) = 1

\* the calls of operation o that push agent infos
PushCalls(o) ==
  {ops[o].calls[i] : i \in 1..Len(ops[o].calls)}
    \cap {c \in Calls : promises[c].request.message = "add_agent_info"}

\* C25: addAllAgentsToAllConductors has resolved only if every push was
\* acknowledged as successful by its target, and it fails when a push
\* fails.
NoPartialSuccess ==
  \A o \in Broadcasts :
    /\ ops[o].state = "resolved" =>
         \A c \in PushCalls(o) : promises[c].state = "resolved"
    /\ (\E c \in PushCalls(o) : promises[c].state = "rejected") =>
         ops[o].state = "rejected"

\* the frame handled by this step is a signal frame that decodes
SignalArrives == frame'.type = "signal" /\ frame'.data.type = "signal"

\* the on and off operations that set or cleared the handler of port p
Writes(p) ==
  {o \in Operations :
     /\ ops[o].name \in {"on", "off"}
     /\ ops[o].state = "resolved"
     /\ ops[o].port = p}

\* the delivery of the signal of frame f to handler h
Delivery(h, f) == [handler |-> h, signal |-> Val("signal", "", f.data.data)]

\* C28: a signal for port p is delivered to the handler given by the most
\* recent on for p and to no other, and to none when off cleared the
\* handler of p after it or no handler was ever set for p; what was set for
\* other ports does not matter.
LastWriteWins ==
  [][SignalArrives =>
       LET writes == Writes(frame'.port)
           last == CHOOSE o \in writes : \A q \in writes : q <= o
       IN  IF writes = {} \/ ops[last].name = "off"
             THEN delivered' = NoDelivery
             ELSE delivered' = Delivery(SignalCbs[ops[last].arg], frame')]_vars

\* a signal was delivered to the handler that replaced another handler of
\* its port
ReplacedHandlerServed ==
  /\ frame.type = "signal"
  /\ \E o1, o2 \in Writes(frame.port) :
       /\ o1 < o2
       /\ ops[o1].name = "on" /\ ops[o2].name = "on"
       /\ ops[o1].arg # ops[o2].arg
       /\ \A q \in Writes(frame.port) : q <= o2
       /\ delivered = Delivery(SignalCbs[ops[o2].arg], frame)

\* C29: a handler is invoked only in the step that handles a signal frame,
\* and with the signal of that frame; a step that registers a handler
\* invokes none, so a signal that was dropped is never delivered later.
SignalsNeverQueued ==
  [][/\ delivered' # NoDelivery =>
          /\ SignalArrives
          /\ delivered'.signal = Val("signal", "", frame'.data.data)
          /\ Len(signals') = Len(signals) + 1
     /\ Len(ops') > Len(ops) => delivered' = NoDelivery
     /\ \A i \in 1..Len(signals) : signals'[i] = signals[i]]_vars

\* a signal was dropped for a port without handler and a handler was
\* registered for that port afterwards
HandlerRegisteredAfterDrop ==
  /\ frame = NoFrame
  /\ delivered = NoDelivery
  /\ ops # << >>
  /\ ops[Len(ops)].name = "on"
  /\ ops[Len(ops)].state = "resolved"
  /\ signalHandlers[ops[Len(ops)].port] # "undefined"
  /\ \E i \in 1..Len(signals) :
       /\ signals[i].frame.port = ops[Len(ops)].port
       /\ signals[i].frame.data.type = "signal"
       /\ signals[i].to = "undefined"
       /\ signals[i].after < Len(ops)

\* C30: the step that delivers a signal leaves the signal-handler table and
\* the pending requests as they are, so the handler is still registered
\* for the port, and a signal for the same port that arrives next is
\* delivered to the same handler.
DeliveryKeepsHandler ==
  [][/\ (frame'.type = "signal" /\ delivered' # NoDelivery) =>
          /\ signalHandlers' = signalHandlers
          /\ requestPromises' = requestPromises
          /\ promises' = promises
          /\ signalHandlers'[frame'.port] = delivered'.handler
     /\ (/\ frame.type = "signal"
         /\ delivered # NoDelivery
         /\ SignalArrives
         /\ frame'.port = frame.port) =>
          delivered' = Delivery(delivered.handler, frame')]_vars

\* two signals for a port were delivered to its handler one after the other
DeliveredTwice ==
  /\ Len(signals) >= 2
  /\ frame.type = "signal"
  /\ delivered # NoDelivery
  /\ LET a == signals[Len(signals) - 1]
         b == signals[Len(signals)]
     IN  /\ a.frame.port = b.frame.port
         /\ a.after = b.after
         /\ a.to # "undefined"
         /\ a.to = b.to
         /\ b.to = delivered.handler


\* operation o is a zome call of fn on conductor a about the entry content
EntryCall(o, fn, a, content) ==
  /\ ops[o].name = "callZome"
  /\ ops[o].step = fn
  /\ ops[o].arg = a
  /\ ops[o].info = content

\* operation o was invoked after addAllAgentsToAllConductors returned, after
\* content was created on conductor a, and after a wait for the DHT to sync
\* that followed the creation returned successfully
AfterSyncOf(o, a, content) ==
  \E i, j \in 1..(o - 1) :
    /\ i < j
    /\ EntryCall(i, "create", a, content)
    /\ ops[i].state = "resolved"
    /\ ops[j].name = "awaitDhtSync"
    /\ ops[j].state = "resolved"
    /\ \E n \in 1..(i - 1) :
         /\ ops[n].name = "addAllAgentsToAllConductors"
         /\ ops[n].state = "resolved"

\* a consistency operation settles in this step
Settles(o) ==
  /\ ops'[o].name = "consistency"
  /\ ops'[o].pc = "done"
  /\ o \in Operations => ops[o].pc = "await"

\* C26: the wait for consistency returns successfully only once all
\* conductors hold the same entries, and fails otherwise only with
\* ConsistencyTimeout.
ConsistencyOrTimeout ==
  [][\A o \in 1..Len(ops') :
       Settles(o) =>
         IF ops'[o].state = "resolved"
           THEN Synced(dht)
           ELSE ops'[o].result = ConsistencyTimeout]_vars

Removed(id) == HasEntry(id) /\ requestPromises'[id] = NoEntry

\* C32: every id in the pending request map belongs to a request that was
\* sent and is not yet settled, and an id leaves the map only in the step
\* that handles the response frame with that id and settles its call.
PendingWereSent ==
  [][/\ \A id \in PendingIds : InFlight(requestPromises[id])
     /\ \A id \in Ids :
          Removed(id) =>
            /\ HandlesResponse
            /\ frame'.id = id
            /\ settled'.promise = requestPromises[id]]_vars

\* C33: the ids of the calls of a connection strictly increase in the order
\* the calls are made, so that no two calls share an id, also when ws.send
\* failed for a call.
IdsStrictlyIncrease ==
  \A c, d \in Calls : c < d => promises[c].id < promises[d].id


\* C34: the request id counter and the pending map belong to one
\* connection: the n-th call on a connection gets id n - 1, and calls and
\* responses on another connection change neither the next id nor the
\* pending map of this one.
ConnectionsIndependent ==
  [][/\ \A c \in 1..Len(promises') : promises'[c].id = c - 1
     /\ peer' # peer =>
          /\ requestId' = requestId
          /\ requestPromises' = requestPromises]_vars


\* the methods of the handle that need the port of the attached interface
PortOps ==
  {"connectAppInterface", "disconnectAppInterface", "on", "off", "callZome",
   "appInfo", "createCloneCell", "enableCloneCell", "disableCloneCell"}

\* a method was invoked on the handle in this step
Invokes == Len(ops') = Len(ops) + 1

\* C36: while no app interface is attached, every method that needs the
\* attached port fails locally and sends no request; the port is recorded
\* only in the step in which an attach_app_interface request is answered
\* with app_interface_attached, and it is the port of that request.
PortNeededAndRecorded ==
  [][/\ (/\ Invokes
         /\ appInterfacePort = 0
         /\ ops'[Len(ops')].name \in PortOps) =>
          /\ ops'[Len(ops')].pc = "done"
          /\ ops'[Len(ops')].state = "rejected"
          /\ promises' = promises
          /\ wire' = wire
          /\ requestId' = requestId
     /\ appInterfacePort' # appInterfacePort =>
          /\ HandlesResponse
          /\ frame'.response.tag = "0"
          /\ frame'.response.val.type = "app_interface_attached"
          /\ \E o \in Operations :
               /\ ops[o].name = "attachAppInterface"
               /\ Completes(o)
               /\ ops'[o].state = "resolved"
               /\ promises[ops[o].call].request.message =
                    "attach_app_interface"
               /\ appInterfacePort' = ops[o].arg]_vars

\* a method that needs the port failed locally, and later an app interface
\* was attached and a request that needs the port was sent
FailedLocallyThenAttached ==
  /\ appInterfacePort # 0
  /\ \E o, n \in Operations :
       /\ ops[o].name \in PortOps
       /\ ops[o].port = 0
       /\ ops[o].state = "rejected"
       /\ ops[o].calls = << >>
       /\ ops[n].name \in PortOps
       /\ ops[n].port # 0
       /\ ops[n].calls # << >>

\* connectAppInterface o returns in this step
ConnectReturns(o) ==
  /\ ops[o].name = "connectAppInterface"
  /\ ops[o].pc # "done"
  /\ ops'[o].pc = "done"
  /\ ops'[o].state = "resolved"

\* C37: connectAppInterface registers the given signal handler for the
\* attached port only after its connect_app_interface request was answered
\* with success; when the request fails, connectAppInterface fails and the
\* handler table stays as it is.
HandlerAfterConnect ==
  [][/\ \A o \in Operations :
          /\ (/\ ops[o].name = "connectAppInterface"
              /\ ops[o].pc # "done"
              /\ ops'[o].state = "rejected") =>
               signalHandlers' = signalHandlers
          /\ ConnectReturns(o) =>
               /\ promises[ops[o].call].state = "resolved"
               /\ promises[ops[o].call].request.type =
                    "connect_app_interface"
               /\ signalHandlers' =
                    [signalHandlers EXCEPT
                       ![ops[o].arg] =
                         IF ops[o].info = 0 THEN "undefined"
                           ELSE SignalCbs[ops[o].info]]
     /\ signalHandlers' # signalHandlers =>
          \/ Invokes /\ ops'[Len(ops')].name \in {"on", "off"}
          \/ \E o \in Operations : ConnectReturns(o)]_vars

\* connectAppInterface registered its handler, and another one failed
ConnectRegistered ==
  \E o, n \in Operations :
    /\ ops[o].name = "connectAppInterface"
    /\ ops[o].state = "resolved"
    /\ ops[o].info = 1
    /\ signalHandlers[ops[o].arg] = "h1"
    /\ ops[n].name = "connectAppInterface"
    /\ ops[n].calls # << >>
    /\ ops[n].state = "rejected"


\* operation o detaches the app interface in this step: the
\* disconnect_app_interface request of disconnectAppInterface or of shutDown
\* is answered with success
Detaches(o) ==
  /\ ops[o].name \in {"disconnectAppInterface", "shutDown"}
  /\ ops[o].step = "disconnect_app_interface"
  /\ ops[o].pc = "await"
  /\ ops'[o].pc # "await"
  /\ ops'[o].state # "rejected"

\* the app interface of port p was detached and no method was invoked on the
\* handle since
Detached(p) ==
  /\ ops # << >>
  /\ ops[Len(ops)].name = "disconnectAppInterface"
  /\ ops[Len(ops)].arg = p
  /\ ops[Len(ops)].state = "resolved"

\* C31: detaching the app interface clears the signal handler registered for
\* its port, and no signal that arrives for the port after the detach is
\* delivered to the callback that was registered before.
DetachClearsHandler ==
  [][/\ \A o \in Operations :
          Detaches(o) => signalHandlers'[ops[o].arg] = "undefined"
     /\ (SignalArrives /\ Detached(frame'.port)) =>
          delivered'.handler = "undefined"]_vars


\* operation o made an n-th call, with a request of the given type
Called(o, n, type) ==
  /\ Len(ops[o].calls) >= n
  /\ promises[ops[o].calls[n]].request.type = type

\* C35: createTryCpConductor by default sends configure_player and, only
\* after that call succeeded, startup, and returns the conductor only after
\* both succeeded; with startup: false it sends no request and returns.
CreateConfiguresThenStarts ==
  \A o \in Operations :
    ops[o].name = "createTryCpConductor" =>
      IF ops[o].arg = 0
        THEN /\ ops[o].calls = << >>
             /\ ops[o].pc = "done"
             /\ ops[o].state = "resolved"
        ELSE /\ Called(o, 1, "configure_player")
             /\ Len(ops[o].calls) <= 2
             /\ Len(ops[o].calls) = 2 =>
                  /\ Called(o, 2, "startup")
                  /\ promises[ops[o].calls[1]].state = "resolved"
             /\ ops[o].state = "resolved" =>
                  /\ Len(ops[o].calls) = 2
                  /\ promises[ops[o].calls[2]].state = "resolved"

\* a conductor was created, configured and started, one was created without
\* startup, and the creation of one failed at configure_player
CreatedBothWays ==
  \E o, n, f \in Operations :
    /\ ops[o].name = "createTryCpConductor"
    /\ ops[o].arg = 1
    /\ ops[o].state = "resolved"
    /\ Len(ops[o].calls) = 2
    /\ ops[n].name = "createTryCpConductor"
    /\ ops[n].arg = 0
    /\ ops[n].state = "resolved"
    /\ ops[f].name = "createTryCpConductor"
    /\ ops[f].state = "rejected"
    /\ Len(ops[f].calls) = 1


\* the method of the player with the given name is invoked in this step
PlayerCall(name) ==
  /\ Len(player'.tasks) = Len(player.tasks) + 1
  /\ player'.tasks[Len(player'.tasks)].name = name

\* the invocations of spawn that have invoked this._spawnConductor and have
\* not returned
Spawning ==
  {t \in 1..Len(player.tasks) :
     player.tasks[t].pc \in {"spawnConductor", "initialize"}}

\* C38: a Player never spawns a second conductor while it holds one or is
\* still spawning one: spawn() while a conductor is held invokes neither
\* onJoin nor the spawn function, and the spawn function is invoked only
\* while no conductor is held and no other spawn() is spawning one.
SpawnsOnlyOne ==
  [][/\ (PlayerCall("spawn") /\ player.conductor # 0) =>
          /\ player'.joins = player.joins
          /\ player'.spawned = player.spawned
          /\ player'.conductor = player.conductor
     /\ player'.spawned # player.spawned =>
          /\ player.conductor = 0
          /\ Spawning = {}]_vars

\* the invocations of kill of player p that got as far as onLeave
Left(p) ==
  {t \in 1..Len(p.tasks) :
     /\ p.tasks[t].name = "kill"
     /\ p.tasks[t].pc = "onLeave" \/ p.tasks[t].result = "true"}

\* what holds of the invocations of kill of player p in every state
KillTallies(p) ==
  /\ \A t \in 1..Len(p.tasks) :
       p.tasks[t].name = "kill" =>
         /\ p.tasks[t].result = "true" => p.tasks[t].held # 0
         /\ p.tasks[t].held = 0 <=> p.tasks[t].result = "false"
         /\ p.tasks[t].held # 0 =>
              Cardinality({i \in 1..Len(p.killed) :
                             p.killed[i] = p.tasks[t].held}) = 1
  /\ Len(p.killed) =
       Cardinality({t \in 1..Len(p.tasks) :
                      p.tasks[t].name = "kill" /\ p.tasks[t].held # 0})
  /\ p.leaves = Cardinality(Left(p))

\* C39: kill returns true only when the player held a conductor when it was
\* invoked, and then the player holds none from the invocation on, kill of
\* that conductor is invoked once and onLeave once before kill returns; a
\* kill invoked while the player holds none, also while an earlier kill is
\* in progress, returns false and kills nothing.
KillsHeldConductorOnce ==
  [][/\ PlayerCall("kill") =>
          LET task == player'.tasks[Len(player'.tasks)]
          IN  IF player.conductor # 0
                THEN /\ player'.conductor = 0
                     /\ player'.killed =
                          Append(player.killed, player.conductor)
                     /\ task.held = player.conductor
                     /\ task.result = "pending"
                ELSE /\ player' =
                          [player EXCEPT !.tasks = Append(@, task)]
                     /\ task.pc = "done"
                     /\ task.result = "false"
     /\ player'.killed # player.killed => PlayerCall("kill")
     /\ KillTallies(player')]_vars

\* a kill was invoked while an earlier kill was in progress: it returned
\* false, and the conductor was killed once and onLeave invoked once
KillDuringKill ==
  \E t, u \in 1..Len(player.tasks) :
    /\ t < u
    /\ player.tasks[t].name = "kill"
    /\ player.tasks[t].pc = "onLeave"
    /\ player.tasks[u].name = "kill"
    /\ player.tasks[u].result = "false"
    /\ player.killed = <<player.tasks[t].held>>
    /\ player.leaves = 1
    /\ player.conductor = 0


\* C40: when a run of runScenario settles, cleanupRun was invoked for every
\* conductor whose prepareRun completed, whether the scenario succeeded, the
\* scenario threw, or the prepareRun of a later conductor threw.
CleanupForPrepared ==
  \A r \in 1..Len(run) :
    (run[r].pc = "done" /\ run[r].threw # "cleanupRun") =>
      run[r].prepared \subseteq run[r].cleaned

====
